---- MODULE Spec2Model ----
(***************************************************************************)
(* Model of the e-ticket ingestion core of haske-itinerary:                *)
(*   - the parser dispatch and the quality-gated generative fallback       *)
(*     (parsers/index.ts, parsers/generic.ts, parsers/ba.ts,               *)
(*      parsers/deterministicParser.ts, llm/extractTicket.ts),             *)
(*   - the text normalizer and the waypoint detector                       *)
(*     (preprocessing/textCleaner.ts),                                     *)
(*   - the leg stitcher and leg-to-segment conversion                      *)
(*     (preprocessing/segmentBuilder.ts),                                  *)
(*   - the date inference, its validation and the mapper to an itinerary   *)
(*     (utils/dateInference.ts, normalizeTicket.ts),                       *)
(*   - the recording of token usage after an extraction                    *)
(*     (llm/tokenTracking.ts),                                             *)
(*   - the Convex mutations that keep the usage statistics and that store  *)
(*     an itinerary under a humanId                                        *)
(*     (convex/llmUsage.ts, convex/itineraries.ts).                        *)
(* Text is a sequence of one-character strings, so that the regular        *)
(* expressions of the source are computed character by character.          *)
(***************************************************************************)
EXTENDS Integers, Sequences, FiniteSets, TLC

VARIABLES
  \* ---- parse orchestration (parseTicket and what it calls)
  pc,          \* position of the parse
  doc,         \* the document being parsed and its environment
  caller,      \* who called extractTicket: "generic" or "ba"
  detTicket,   \* deterministic ticket of parseWithDeterministicPreprocessing
  detConf95,   \* TRUE when the SAA shortcut fixed the confidence at 95
  regexTicket, \* result of the BA regex extraction
  aiTicket,    \* result of extractTicket
  genTicket,   \* value returned by parseGeneric
  returned,    \* value returned by parseTicket
  source,      \* which extraction produced the returned ticket
  llmCalls,    \* model calls made so far: [enhance, cheap, burst]
  llmFailed,   \* TRUE once extractTicket has thrown
  recorder,    \* outcome of recordTokenUsage: "none", "ok" or "failed"
  \* ---- text pipeline (preprocessPDFText .. buildSegmentsFromText)
  stage,       \* position of the text pipeline
  rawText,     \* text handed to preprocessPDFText
  cleanedText, \* output of preprocessPDFText
  cleanedTwice,\* preprocessPDFText applied to its own output
  waypoints,   \* output of extractWaypoints / input of the stitcher
  flightNumbers, \* output of extractFlightNumbers / input of the stitcher
  durations,   \* output of extractDurations: flight number -> duration text
  baseDate,    \* base date handed to convertLegsToParsedSegments
  legs,        \* output of stitchWaypointsIntoLegs
  segments,    \* output of convertLegsToParsedSegments
  warnings,    \* console.warn lines emitted so far
  \* ---- normalizer / mapper (normalizeTicketToItinerary and what it calls)
  parsedTicket,     \* the ParsedTicket handed to normalizeTicketToItinerary
  inferredSegments, \* result of inferSegmentDates
  validation,       \* result of validateSegmentDates: [isValid, errors]
  validationWarnings, \* the warnings array of validateSegmentDates
  itinerary,        \* the NormalizedItinerary returned to the caller
  \* ---- Convex tables (convex/llmUsage.ts, convex/itineraries.ts)
  llmUsage,         \* rows of table llmUsage, in order of insertion
  llmStats,         \* rows of table llmStats, in order of insertion
  itineraries       \* humanId of the rows of table itineraries, in that order

parseVars == <<pc, doc, caller, detTicket, detConf95, regexTicket, aiTicket,
               genTicket, returned, source, llmCalls, llmFailed, recorder>>
textVars == <<stage, rawText, cleanedText, cleanedTwice, waypoints,
              flightNumbers, durations, baseDate, legs, segments, warnings>>
normVars == <<parsedTicket, inferredSegments, validation, validationWarnings,
              itinerary>>
dbVars == <<llmUsage, llmStats, itineraries>>
vars == <<parseVars, textVars, normVars, dbVars>>

-----------------------------------------------------------------------------
(* Characters and small helpers on Text                                    *)

Digit == {"0", "1", "2", "3", "4", "5", "6", "7", "8", "9"}
Upper == {"A", "B", "C", "D", "E", "F", "G", "H", "I", "J", "K", "L", "M",
          "N", "O", "P", "Q", "R", "S", "T", "U", "V", "W", "X", "Y", "Z"}
Lower == {"a", "b", "c", "d", "e", "f", "g", "h", "i", "j", "k", "l", "m",
          "n", "o", "p", "q", "r", "s", "t", "u", "v", "w", "x", "y", "z"}
Letter == Upper \cup Lower
\* \w of a JavaScript regular expression
WordChar == Letter \cup Digit \cup {"_"}
\* \s of a JavaScript regular expression (the members that the inputs use)
Space == {" ", "\n", "\t"}

DigitVal(c) ==
  CASE c = "0" -> 0 [] c = "1" -> 1 [] c = "2" -> 2 [] c = "3" -> 3
    [] c = "4" -> 4 [] c = "5" -> 5 [] c = "6" -> 6 [] c = "7" -> 7
    [] c = "8" -> 8 [] c = "9" -> 9

Min(a, b) == IF a < b THEN a ELSE b
Max(a, b) == IF a > b THEN a ELSE b

\* s.substring(i-1, j) with 1-based inclusive bounds; empty when j < i
Sub(s, i, j) == IF j < i THEN <<>> ELSE SubSeq(s, i, j)

\* TRUE iff pat occurs in s starting at position i
MatchAt(s, pat, i) ==
  /\ i >= 1
  /\ i + Len(pat) - 1 <= Len(s)
  /\ \A k \in 1..Len(pat) : s[i + k - 1] = pat[k]

\* String.prototype.includes
Includes(s, pat) == \E i \in 1..(Len(s) + 1) : MatchAt(s, pat, i)

\* String.prototype.indexOf, 1-based; 0 when absent
IndexOf(s, pat) ==
  IF Includes(s, pat)
  THEN CHOOSE i \in 1..(Len(s) + 1) :
         /\ MatchAt(s, pat, i)
         /\ \A j \in 1..(i - 1) : ~MatchAt(s, pat, j)
  ELSE 0

\* the character of s at i exists and is in the set cs
At(s, i, cs) == i >= 1 /\ i <= Len(s) /\ s[i] \in cs
Boundary(s, i) == At(s, i - 1, WordChar) # At(s, i, WordChar)

\* the string literals of the sources, each as the sequence of its characters
Txt ==
  [BA |-> <<"B", "A">>,
   SA |-> <<"S", "A">>,
   UNKNOWN |-> <<"U", "N", "K", "N", "O", "W", "N">>,
   Locator |-> <<"Z", "L", "7", "5", "A", "O">>,
   JohnSmith |-> <<"J", "O", "H", "N", " ", "S", "M", "I", "T", "H">>,
   Baggage |-> <<"B", "A", "G", "G", "A", "G", "E", " ", "A", "L", "L",
                 "O", "W", "A", "N", "C", "E">>,
   BA123 |-> <<"B", "A", "1", "2", "3">>,
   SA053 |-> <<"S", "A", "0", "5", "3">>,
   LHR |-> <<"L", "H", "R">>,
   ACC |-> <<"A", "C", "C">>,
   JNB |-> <<"J", "N", "B">>,
   CPT |-> <<"C", "P", "T">>,
   t2030 |-> <<"2", "0", ":", "3", "0">>,
   t0425 |-> <<"0", "4", ":", "2", "5">>,
   t0820 |-> <<"0", "8", ":", "2", "0">>,
   t1030 |-> <<"1", "0", ":", "3", "0">>,
   bag2x23kg |-> <<"2", " ", "x", " ", "2", "3", "k", "g">>,
   NEXT_DAY |-> <<" ", "N", "E", "X", "T", "_", "D", "A", "Y">>,
   ItineraryDetails |-> <<"I","t","i","n","e","r","a","r","y"," ",
                          "d","e","t","a","i","l","s">>,
   YourFare |-> <<"Y","o","u","r"," ","f","a","r","e">>,
   Plus1 |-> <<"+", "1">>,
   Plus1Day |-> <<"+", "1", " ", "d", "a", "y">>,
   ParenPlus1Day |-> <<"(", "+", "1", " ", "d", "a", "y", ")">>,
   terminal |-> <<"t","e","r","m","i","n","a","l">>,
   flight |-> <<"f","l","i","g","h","t">>,
   number |-> <<"n","u","m","b","e","r">>,
   min |-> <<"m","i","n">>,
   Terminal5 |-> <<"5">>,
   d2h30min |-> <<"2", "h", " ", "3", "0", "m", "i", "n">>,
   html |-> <<"<", "p", ">", "B", "A", "1", "2", "3", "<", "/", "p", ">">>,
   isoTail |-> <<":", "0", "0", ".", "0", "0", "0", "Z">>,
   Unknown |-> <<"U", "n", "k", "n", "o", "w", "n">>,
   London |-> <<"L", "o", "n", "d", "o", "n">>,
   Accra |-> <<"A", "c", "c", "r", "a">>,
   n123 |-> <<"1", "2", "3">>,
   d04Oct2024 |-> <<"0", "4", " ", "O", "c", "t", " ", "2", "0", "2", "4">>,
   d05Oct2024 |-> <<"0", "5", " ", "O", "c", "t", " ", "2", "0", "2", "4">>,
   iso07Oct |-> <<"2", "0", "2", "4", "-", "1", "0", "-", "0", "7">>,
   iso04Oct |-> <<"2", "0", "2", "4", "-", "1", "0", "-", "0", "4">>,
   slash04Oct |-> <<"0", "4", "/", "1", "0", "/", "2", "0", "2", "4">>,
   t2210 |-> <<"2", "2", ":", "1", "0">>,
   t0615 |-> <<"0", "6", ":", "1", "5">>,
   t0500 |-> <<"0", "5", ":", "0", "0">>,
   m0615 |-> <<"0", "6", "1", "5">>,
   pm615 |-> <<"6", ":", "1", "5", " ", "P", "M">>]

-----------------------------------------------------------------------------
(* Tickets                                                                  *)

LowerSeq == <<"a", "b", "c", "d", "e", "f", "g", "h", "i", "j", "k", "l", "m",
              "n", "o", "p", "q", "r", "s", "t", "u", "v", "w", "x", "y", "z">>
UpperSeq == <<"A", "B", "C", "D", "E", "F", "G", "H", "I", "J", "K", "L", "M",
              "N", "O", "P", "Q", "R", "S", "T", "U", "V", "W", "X", "Y", "Z">>
UpperChar(c) ==
  IF c \in Lower THEN UpperSeq[CHOOSE i \in 1..26 : LowerSeq[i] = c] ELSE c
LowerChar(c) ==
  IF c \in Upper THEN LowerSeq[CHOOSE i \in 1..26 : UpperSeq[i] = c] ELSE c
\* String.prototype.toUpperCase / toLowerCase
ToUpperCase(s) == [i \in 1..Len(s) |-> UpperChar(s[i])]
ToLowerCase(s) == [i \in 1..Len(s) |-> LowerChar(s[i])]

\* s with the characters of the set drop removed: s.replace(/[drop]/g, '')
Strip(s, drop) == SelectSeq(s, LAMBDA c : c \notin drop)

\* the empty text stands for a missing (undefined) or empty string: both are falsy
NoText == <<>>
Truthy(s) == s # NoText

Place(iata, time) == [iata |-> iata, timeLocal |-> time]
Segment(fn, dep, arr) ==
  [marketingFlightNo |-> fn, dep |-> dep, arr |-> arr, durationMinutes |-> 0]
Ticket(carrier, locator, pax, segs) ==
  [carrier |-> carrier, airlineLocator |-> locator, passengers |-> pax,
   segments |-> segs, baggage |-> NoText, payments |-> 0, tickets |-> 0,
   fareNotes |-> NoText, raw |-> [text |-> NoText, html |-> NoText]]

\* the ticket t with raw: { text, html }
WithRaw(t, text, html) == [t EXCEPT !.raw = [text |-> text, html |-> html]]

-----------------------------------------------------------------------------
(* Scorers                                                                  *)

\* deterministicParser.ts calculateConfidence: (score / maxScore) * 100,
\* kept as the pair score, maxScore so that no rounding is modelled
RECURSIVE SegmentPoints(_)
SegmentPoints(segs) ==
  IF segs = <<>> THEN 0
  ELSE LET s == Head(segs) IN
       (IF Truthy(s.marketingFlightNo) THEN 5 ELSE 0)
       + (IF Truthy(s.dep.iata) THEN 5 ELSE 0)
       + (IF Truthy(s.arr.iata) THEN 5 ELSE 0)
       + (IF Truthy(s.dep.timeLocal) THEN 5 ELSE 0)
       + (IF Truthy(s.arr.timeLocal) THEN 5 ELSE 0)
       + SegmentPoints(Tail(segs))

ConfidenceScore(t) ==
  (IF Truthy(t.airlineLocator) THEN 20 ELSE 0)
  + (IF Len(t.passengers) > 0 THEN 20 ELSE 0)
  + (IF Len(t.segments) > 0 THEN 20 ELSE 0)
  + SegmentPoints(t.segments)

ConfidenceMax(t) == 60 + 25 * Len(t.segments)

\* calculateConfidence(t) > threshold
calculateConfidenceAbove(t, threshold) ==
  ConfidenceScore(t) * 100 > threshold * ConfidenceMax(t)

\* calculateConfidence(a) < calculateConfidence(b)
ConfidenceLess(a, b) ==
  ConfidenceScore(a) * ConfidenceMax(b) < ConfidenceScore(b) * ConfidenceMax(a)

\* generic.ts: if (deterministicResult.confidence > 70)
AcceptanceThreshold == 70
\* deterministicParser.ts: confidence: 95 on the SAA shortcut
SAAConfidence == 95

\* deterministicParser.ts shouldUseLLMEnhancement
shouldUseLLMEnhancement(t) ==
  \/ ~Truthy(t.airlineLocator)
  \/ Len(t.passengers) = 0
  \/ Len(t.segments) = 0
  \/ ~(\A i \in 1..Len(t.segments) :
         /\ Truthy(t.segments[i].marketingFlightNo)
         /\ Truthy(t.segments[i].dep.iata)
         /\ Truthy(t.segments[i].arr.iata))

\* number of parts of name.split(' ')
SplitCount(name) == 1 + Cardinality({i \in 1..Len(name) : name[i] = " "})

\* /BAGGAGE|ALLOWANCE|FLIGHT|TICKET/.test(name)
IsBlacklisted(name) ==
  LET
    BlacklistWords == {<<"B","A","G","G","A","G","E">>,
                       <<"A","L","L","O","W","A","N","C","E">>,
                       <<"F","L","I","G","H","T">>,
                       <<"T","I","C","K","E","T">>}
  IN
  \E w \in BlacklistWords : Includes(name, w)

\* ba.ts assessExtractionQuality: the passengers that pass the name filter
ValidPassengers(t) ==
  {i \in 1..Len(t.passengers) :
     /\ Truthy(t.passengers[i])
     /\ SplitCount(t.passengers[i]) >= 2
     /\ SplitCount(t.passengers[i]) <= 4
     /\ ~IsBlacklisted(t.passengers[i])}

ValidSegments(t) ==
  LET
    \* /^[A-Z]{2,3}\d+$/
    MatchesFlightPattern(f) ==
      \E k \in {2, 3} :
        /\ Len(f) > k
        /\ \A i \in 1..k : f[i] \in Upper
        /\ \A i \in (k + 1)..Len(f) : f[i] \in Digit
  IN
  {i \in 1..Len(t.segments) :
     /\ Truthy(t.segments[i].marketingFlightNo)
     /\ MatchesFlightPattern(t.segments[i].marketingFlightNo)}

\* ba.ts assessExtractionQuality is score / maxScore with maxScore = 100; the
\* score is the rational QualityNum / QualityDen (no rounding is modelled)
QualityDen(t) == 2 * Max(1, Len(t.passengers)) * Max(1, Len(t.segments))
QualityNum(t) ==
  LET P == Len(t.passengers)
      S == Len(t.segments)
      D == QualityDen(t)
  IN  D * ((IF Truthy(t.airlineLocator) /\ Len(t.airlineLocator) >= 5
              THEN 15 ELSE 0)
           + (IF P > 0 THEN 15 ELSE 0)
           + (IF S > 0 THEN 10 ELSE 0)
           + (IF P > 0 THEN Min(P * 5, 10) ELSE 0)
           + (IF Truthy(t.baggage) THEN 3 ELSE 0)
           + (IF t.payments > 0 THEN 3 ELSE 0)
           + (IF t.tickets > 0 THEN 2 ELSE 0)
           + (IF Truthy(t.fareNotes) THEN 2 ELSE 0))
      + (IF P > 0 THEN (D \div P) * Cardinality(ValidPassengers(t)) * 20 ELSE 0)
      + (IF S > 0 THEN (D \div S) * Cardinality(ValidSegments(t)) * 15 ELSE 0)
      + (IF S > 0 THEN (D \div 2) * Min(5 * S, 10) ELSE 0)

\* assessExtractionQuality(a) > assessExtractionQuality(b)
QualityGreater(a, b) ==
  QualityNum(a) * QualityDen(b) > QualityNum(b) * QualityDen(a)

\* ba.ts assessExtractionQuality, the block `Passenger data quality`:
\* (validPassengers.length / passengers.length) * 20 + min(passengers.length
\* * 5, 10), times the number of passengers so that it is an integer
PassengerQuality(t) ==
  IF Len(t.passengers) > 0
  THEN Cardinality(ValidPassengers(t)) * 20
         + Len(t.passengers) * Min(Len(t.passengers) * 5, 10)
  ELSE 0

\* llm/schemas.ts isValidExtraction
isValidExtraction(t) ==
  /\ Len(t.carrier) >= 2
  /\ Len(t.passengers) >= 1
  /\ \A i \in 1..Len(t.passengers) : Len(t.passengers[i]) >= 2
  /\ Len(t.segments) >= 1
  /\ \A i \in 1..Len(t.segments) : Len(t.segments[i].marketingFlightNo) >= 3
  /\ Truthy(t.airlineLocator)


-----------------------------------------------------------------------------
(* generic.ts postProcessTicket                                             *)

AIRLINE_CODES == {<<"B","A">>, <<"A","F">>, <<"K","L">>, <<"L","H">>,
                  <<"V","S">>, <<"A","A">>, <<"D","L">>, <<"U","A">>,
                  <<"E","K">>, <<"Q","R">>, <<"S","Q">>, <<"C","X">>,
                  <<"S","A">>}

normalizeFlightNumber(flightNo) ==
  LET
    \* number.padStart(4, '0')
    PadStart4(d) ==
      CASE Len(d) >= 4 -> d
        [] Len(d) = 3 -> <<"0">> \o d
        [] Len(d) = 2 -> <<"0", "0">> \o d
        [] Len(d) = 1 -> <<"0", "0", "0">> \o d
        [] OTHER -> <<"0", "0", "0", "0">>
  IN
  IF ~Truthy(flightNo) THEN NoText
  ELSE LET cleaned == ToUpperCase(Strip(flightNo, Space))
           \* /^([A-Z]{2,3})(\d{1,4})$/ with a two-letter airline code
           two == /\ Len(cleaned) >= 3 /\ Len(cleaned) <= 6
                  /\ cleaned[1] \in Upper /\ cleaned[2] \in Upper
                  /\ \A i \in 3..Len(cleaned) : cleaned[i] \in Digit
       IN  IF two /\ Sub(cleaned, 1, 2) \in AIRLINE_CODES
           THEN Sub(cleaned, 1, 2) \o PadStart4(Sub(cleaned, 3, Len(cleaned)))
           ELSE cleaned

normalizeIataCode(iata) ==
  IF ~Truthy(iata) THEN NoText
  ELSE LET cleaned == SelectSeq(ToUpperCase(iata), LAMBDA c : c \in Upper)
       IN  IF Len(cleaned) = 3 THEN cleaned ELSE NoText

\* generic.ts normalizeTime: /(\d{1,2})[:\.]?(\d{2})?\s*(AM|PM)?/i
normalizeTime(time) ==
  LET
    \* position of the first digit of s, 0 when it has none
    FirstDigit(s) ==
      IF \E i \in 1..Len(s) : s[i] \in Digit
      THEN CHOOSE i \in 1..Len(s) :
             s[i] \in Digit /\ \A j \in 1..(i - 1) : s[j] \notin Digit
      ELSE 0

    digits == <<"0", "1", "2", "3", "4", "5", "6", "7", "8", "9">>

    \* parseInt of one or two digits
    parseInt(ds) ==
      IF Len(ds) = 2 THEN 10 * DigitVal(ds[1]) + DigitVal(ds[2])
      ELSE DigitVal(ds[1])

    \* the hour of the 24 hour clock, period being "A", "P" or ""
    Hour24(h0, period) ==
      IF period = "P" /\ h0 # 12 THEN h0 + 12
      ELSE IF period = "A" /\ h0 = 12 THEN 0 ELSE h0

    \* the text returned for the hour and the minutes of the match
    Formatted(hour, minutes) ==
      IF hour > 23 \/ parseInt(minutes) > 59 THEN time
      ELSE <<digits[(hour \div 10) + 1], digits[(hour % 10) + 1], ":">>
           \o minutes

    \* \s* from rest on, then (AM|PM)?
    Period(rest) ==
      LET Letters(skip) ==
            IF skip + 1 <= Len(time)
               /\ UpperChar(time[skip]) \in {"A", "P"}
               /\ UpperChar(time[skip + 1]) = "M"
            THEN UpperChar(time[skip]) ELSE ""
      IN  Letters(CHOOSE k \in rest..(Len(time) + 1) :
                    /\ \A j \in rest..(k - 1) : time[j] \in Space
                    /\ (k > Len(time) \/ time[k] \notin Space))

    \* (\d{2})? at afterSep, for the hours matched
    Minutes(hours, afterSep, hasMin) ==
      Formatted(Hour24(parseInt(hours), Period(IF hasMin THEN afterSep + 2 ELSE afterSep)),
                IF hasMin THEN Sub(time, afterSep, afterSep + 1) ELSE <<"0", "0">>)

    \* [:\.]? after the hours, which are time[p..hEnd]
    Separator(p, hEnd) ==
      LET From(afterSep) ==
            Minutes(Sub(time, p, hEnd), afterSep,
                    At(time, afterSep, Digit) /\ At(time, afterSep + 1, Digit))
      IN  From(IF hEnd + 1 <= Len(time) /\ time[hEnd + 1] \in {":", "."}
               THEN hEnd + 2 ELSE hEnd + 1)

    \* (\d{1,2}) at the first digit p; without a digit there is no match
    Hours(p) ==
      IF p = 0 THEN time
      ELSE Separator(p, IF At(time, p + 1, Digit) THEN p + 1 ELSE p)
  IN
  IF ~Truthy(time) THEN NoText ELSE Hours(FirstDigit(time))

normalizeLocationData(location) ==
  [location EXCEPT !.iata = normalizeIataCode(location.iata),
                   !.timeLocal = normalizeTime(location.timeLocal)]

\* postProcessTicket without `ticket.raw = originalInput`
postProcessTicket_KeepsRaw(t, originalInput) ==
  [t EXCEPT
     !.segments = [i \in 1..Len(t.segments) |->
        [t.segments[i] EXCEPT
           !.marketingFlightNo =
              normalizeFlightNumber(t.segments[i].marketingFlightNo),
           !.dep = normalizeLocationData(t.segments[i].dep),
           !.arr = normalizeLocationData(t.segments[i].arr)]],
     !.carrier = ToUpperCase(t.carrier)]

postProcessTicket(t, originalInput) ==
  [t EXCEPT
     !.raw = [text |-> originalInput.text, html |-> originalInput.html],
     !.segments = [i \in 1..Len(t.segments) |->
        [t.segments[i] EXCEPT
           !.marketingFlightNo =
              normalizeFlightNumber(t.segments[i].marketingFlightNo),
           !.dep = normalizeLocationData(t.segments[i].dep),
           !.arr = normalizeLocationData(t.segments[i].arr)]],
     !.carrier = ToUpperCase(t.carrier)]


-----------------------------------------------------------------------------
(* Documents, and what the extractors and the model answer for them         *)


FullSegment == Segment(Txt.BA123, Place(Txt.LHR, Txt.t2030), Place(Txt.ACC, Txt.t0425))

\* tickets the deterministic pipeline builds (baggage is never set by it);
\* the last has a leg whose flight number was not found (stitcher: no
\* flightNumbers[i])
DetTickets ==
  { Ticket(NoText, NoText, <<>>, <<>>),
    Ticket(NoText, Txt.Locator, <<Txt.JohnSmith>>, <<>>),
    Ticket(Txt.BA, Txt.Locator, <<Txt.JohnSmith>>, <<FullSegment>>),
    Ticket(Txt.BA, NoText, <<>>, <<FullSegment>>),
    Ticket(Txt.BA, NoText, <<Txt.JohnSmith>>, <<FullSegment>>),
    Ticket(NoText, Txt.Locator, <<Txt.JohnSmith>>,
           <<Segment(NoText, Place(Txt.ACC, Txt.t2030), Place(Txt.JNB, Txt.t0425))>>) }

\* tickets the BA regex extraction builds
RegexTickets ==
  { Ticket(Txt.BA, NoText, <<>>, <<>>),
    Ticket(Txt.BA, Txt.Locator, <<Txt.Baggage>>, <<FullSegment>>),
    [Ticket(Txt.BA, Txt.Locator, <<Txt.JohnSmith>>, <<FullSegment>>)
       EXCEPT !.baggage = Txt.bag2x23kg, !.payments = 1, !.tickets = 1] }

\* tickets parseBasic builds, its segments { marketingFlightNo, dep: {}, arr: {} }
BasicTickets ==
  { Ticket(Txt.UNKNOWN, NoText, <<>>, <<>>),
    Ticket(Txt.BA, NoText, <<>>,
           <<Segment(Txt.BA123, Place(NoText, NoText), Place(NoText, NoText))>>) }

\* answers of the model to extractWithModel, after LLMPromptResponseSchema;
\* the second has a flight number that isValidExtraction rejects (length <= 2)
AITickets ==
  { Ticket(Txt.BA, NoText, <<>>, <<>>),
    Ticket(Txt.BA, Txt.Locator, <<Txt.JohnSmith>>,
           <<Segment(Txt.BA, Place(Txt.LHR, Txt.t2030), Place(Txt.ACC, Txt.t0425))>>),
    Ticket(Txt.BA, Txt.Locator, <<Txt.JohnSmith>>, <<FullSegment>>) }

\* answers of the model to the enhancement prompt
Enhancements ==
  { [airlineLocator |-> NoText, passengers |-> <<>>, baggage |-> NoText,
     segmentDurations |-> <<>>],
    [airlineLocator |-> Txt.Locator, passengers |-> <<Txt.JohnSmith>>,
     baggage |-> Txt.bag2x23kg, segmentDurations |-> <<355>>] }

Documents ==
  { d \in [mode : {"ai_first", "regex_first"},
           configured : BOOLEAN,
           kind : {"BA", "BAlike", "SAA", "other"},
           text : {Txt.ItineraryDetails},
           html : {NoText, Txt.html},
           det : DetTickets,
           regex : RegexTickets,
           basic : BasicTickets] :
      \* the BA extractors read only documents that look like BA
      d.kind \in {"SAA", "other"} => d.regex = Ticket(Txt.BA, NoText, <<>>, <<>>) }

\* parsers/index.ts detectCarrier(input) === 'BA'
detectedBA(d) == d.kind = "BA"
\* ba.ts looksLikeBA: also 'booking reference:', 'world traveller', 'club world'
looksLikeBA(d) == d.kind \in {"BA", "BAlike"}
\* deterministicParser.ts isSAA, with segments found by the simple extractor
saaShortcut(d) == d.kind = "SAA" /\ Len(d.det.segments) > 0

\* ba.ts enrichBAData: fills only what the generative result lacks
enrichBAData(t, d) ==
  [t EXCEPT
     !.airlineLocator =
        IF (~Truthy(t.airlineLocator) \/ Len(t.airlineLocator) < 5)
           /\ Truthy(d.regex.airlineLocator)
        THEN d.regex.airlineLocator ELSE t.airlineLocator,
     !.tickets = IF t.tickets = 0 THEN d.regex.tickets ELSE t.tickets,
     !.baggage = IF ~Truthy(t.baggage) THEN d.regex.baggage ELSE t.baggage,
     !.payments = IF t.payments = 0 THEN d.regex.payments ELSE t.payments,
     !.fareNotes = IF ~Truthy(t.fareNotes) THEN d.regex.fareNotes
                   ELSE t.fareNotes]

\* deterministicParser.ts enhanceWithLLM: the merge of the model's answer
mergeEnhancements(t, e) ==
  [t EXCEPT
     !.airlineLocator =
        IF Truthy(e.airlineLocator) /\ ~Truthy(t.airlineLocator)
        THEN e.airlineLocator ELSE t.airlineLocator,
     !.passengers =
        IF Len(t.passengers) = 0 THEN e.passengers ELSE t.passengers,
     !.baggage = IF Truthy(e.baggage) /\ ~Truthy(t.baggage)
                 THEN e.baggage ELSE t.baggage,
     !.segments = [i \in 1..Len(t.segments) |->
        IF i <= Len(e.segmentDurations)
        THEN [t.segments[i] EXCEPT !.durationMinutes = e.segmentDurations[i]]
        ELSE t.segments[i]]]

NoTicket == [none |-> TRUE]
NoDate == [none |-> TRUE]
NoCalls == [enhance |-> 0, cheap |-> 0, burst |-> 0]
TotalCalls == llmCalls.enhance + llmCalls.cheap + llmCalls.burst


-----------------------------------------------------------------------------
(* The parse of one document: parseTicket and the parsers it calls          *)

TextIdle ==
  /\ stage = "idle"
  /\ rawText = <<>>
  /\ cleanedText = <<>>
  /\ cleanedTwice = <<>>
  /\ waypoints = <<>>
  /\ flightNumbers = <<>>
  /\ durations = <<>>
  /\ baseDate = NoDate
  /\ legs = <<>>
  /\ segments = <<>>
  /\ warnings = <<>>

DbIdle ==
  /\ llmUsage = <<>>
  /\ llmStats = <<>>
  /\ itineraries = <<>>

NormIdle ==
  /\ parsedTicket = NoTicket
  /\ inferredSegments = <<>>
  /\ validation = [isValid |-> TRUE, errors |-> <<>>]
  /\ validationWarnings = <<>>
  /\ itinerary = [threw |-> FALSE, segments |-> <<>>, createdAt |-> NoText]

ParseIdle ==
  /\ pc = "idle"
  /\ doc = NoTicket
  /\ caller = "none"
  /\ detTicket = NoTicket
  /\ detConf95 = FALSE
  /\ regexTicket = NoTicket
  /\ aiTicket = NoTicket
  /\ genTicket = NoTicket
  /\ returned = NoTicket
  /\ source = "none"
  /\ llmCalls = NoCalls
  /\ llmFailed = FALSE
  /\ recorder = "none"

Init ==
  /\ NormIdle
  /\ DbIdle
  /\ pc = "parseTicket"
  /\ doc \in Documents
  /\ caller = "none"
  /\ detTicket = NoTicket
  /\ detConf95 = FALSE
  /\ regexTicket = NoTicket
  /\ aiTicket = NoTicket
  /\ genTicket = NoTicket
  /\ returned = NoTicket
  /\ source = "none"
  /\ llmCalls = NoCalls
  /\ llmFailed = FALSE
  /\ recorder = "none"
  /\ TextIdle

\* parsers/index.ts parseTicket: the dispatch on the parser mode
ParseTicket ==
  /\ pc = "parseTicket"
  /\ pc' = IF doc.mode = "ai_first" THEN "parseGeneric"
           ELSE IF looksLikeBA(doc) THEN "parseBA" ELSE "parseGeneric"
  /\ UNCHANGED <<doc, caller, detTicket, detConf95, regexTicket, aiTicket,
                 genTicket, returned, source, llmCalls, llmFailed, recorder,
                 textVars, normVars, dbVars>>

\* generic.ts parseGeneric: entry, parseBasic when the service is not configured
ParseGeneric ==
  /\ pc = "parseGeneric"
  /\ IF ~doc.configured
     THEN /\ genTicket' = WithRaw(doc.basic, doc.text, doc.html)
          /\ source' = "basic"
          /\ pc' = "genericReturn"
     ELSE /\ pc' = "deterministic"
          /\ UNCHANGED <<genTicket, source>>
  /\ UNCHANGED <<doc, caller, detTicket, detConf95, regexTicket, aiTicket,
                 returned, llmCalls, llmFailed, recorder,
                 textVars, normVars, dbVars>>

\* deterministicParser.ts parseWithDeterministicPreprocessing, steps 1 to 9
Deterministic ==
  /\ pc = "deterministic"
  /\ detTicket' = WithRaw(doc.det, doc.text, NoText)
  /\ detConf95' = saaShortcut(doc)
  /\ pc' = IF ~saaShortcut(doc) /\ shouldUseLLMEnhancement(doc.det)
           THEN "enhance" ELSE "gate"
  /\ UNCHANGED <<doc, caller, regexTicket, aiTicket, genTicket, returned,
                 source, llmCalls, llmFailed, recorder,
                 textVars, normVars, dbVars>>

\* EnhanceWithLLM with a failed call asked again instead of being swallowed
EnhanceWithLLM_Retry ==
  /\ pc = "enhance"
  /\ llmCalls' = [llmCalls EXCEPT !.enhance = @ + 1]
  /\ \/ detTicket' = detTicket /\ pc' = "enhance"
     \/ \E e \in Enhancements :
          detTicket' = mergeEnhancements(detTicket, e) /\ pc' = "gate"
  /\ UNCHANGED <<doc, caller, detConf95, regexTicket, aiTicket, genTicket,
                 returned, source, llmFailed, recorder,
                 textVars, normVars, dbVars>>

\* deterministicParser.ts enhanceWithLLM: one cheap-tier call; a failure of
\* the call or of JSON.parse is caught and leaves the ticket as it was
EnhanceWithLLM ==
  /\ pc = "enhance"
  /\ llmCalls' = [llmCalls EXCEPT !.enhance = @ + 1]
  /\ \/ detTicket' = detTicket
     \/ \E e \in Enhancements : detTicket' = mergeEnhancements(detTicket, e)
  /\ pc' = "gate"
  /\ UNCHANGED <<doc, caller, detConf95, regexTicket, aiTicket, genTicket,
                 returned, source, llmFailed, recorder,
                 textVars, normVars, dbVars>>

\* generic.ts parseGeneric: if (deterministicResult.confidence > 70)
Gate ==
  /\ pc = "gate"
  /\ IF (IF detConf95 THEN SAAConfidence > AcceptanceThreshold
         ELSE calculateConfidenceAbove(detTicket, AcceptanceThreshold))
     THEN /\ genTicket' = postProcessTicket(detTicket, doc)
          /\ source' = "deterministic"
          /\ pc' = "genericReturn"
          /\ UNCHANGED caller
     ELSE /\ caller' = "generic"
          /\ pc' = "extractCheap"
          /\ UNCHANGED <<genTicket, source>>
  /\ UNCHANGED <<doc, detTicket, detConf95, regexTicket, aiTicket, returned,
                 llmCalls, llmFailed, recorder,
                 textVars, normVars, dbVars>>

\* extractTicket.ts extractTicket: the call with MODELS.CHEAP; it throws, or
\* answers a ticket that is returned when isValidExtraction accepts it
ExtractCheap ==
  /\ pc = "extractCheap"
  /\ llmCalls' = [llmCalls EXCEPT !.cheap = @ + 1]
  /\ \/ /\ llmFailed' = TRUE
        /\ pc' = "extractThrew"
        /\ UNCHANGED aiTicket
     \/ \E t \in AITickets :
          /\ aiTicket' = WithRaw(t, doc.text, doc.html)
          /\ pc' = IF isValidExtraction(t) THEN "extractDone" ELSE "extractBurst"
          /\ UNCHANGED llmFailed
  /\ UNCHANGED <<doc, caller, detTicket, detConf95, regexTicket, genTicket,
                 returned, source, recorder,
                 textVars, normVars, dbVars>>

\* extractTicket.ts extractTicket: the retry with MODELS.BURST, whose answer
\* is returned without a second validation
ExtractBurst ==
  /\ pc = "extractBurst"
  /\ llmCalls' = [llmCalls EXCEPT !.burst = @ + 1]
  /\ \/ /\ llmFailed' = TRUE
        /\ pc' = "extractThrew"
        /\ UNCHANGED aiTicket
     \/ \E t \in AITickets :
          /\ aiTicket' = WithRaw(t, doc.text, doc.html)
          /\ pc' = "extractDone"
          /\ UNCHANGED llmFailed
  /\ UNCHANGED <<doc, caller, detTicket, detConf95, regexTicket, genTicket,
                 returned, source, recorder,
                 textVars, normVars, dbVars>>

\* tokenTracking.ts recordTokenUsage, awaited by parseGeneric and parseBA
\* after extractTicket has resolved: the mutation succeeds, or it fails and
\* the error is caught and logged. The step is taken when the promise of
\* convex.mutation settles.
RecordTokenUsage ==
  /\ pc = "extractDone"
  /\ \E outcome \in {"ok", "failed"} : recorder' = outcome
  /\ pc' = "recorded"
  /\ UNCHANGED <<doc, caller, detTicket, detConf95, regexTicket, aiTicket,
                 genTicket, returned, source, llmCalls, llmFailed,
                 textVars, normVars, dbVars>>

\* generic.ts parseGeneric: return postProcessTicket(extractionResult.result)
GenericAfterExtract ==
  /\ pc = "recorded"
  /\ caller = "generic"
  /\ genTicket' = postProcessTicket(aiTicket, doc)
  /\ source' = "generative"
  /\ pc' = "genericReturn"
  /\ UNCHANGED <<doc, caller, detTicket, detConf95, regexTicket, aiTicket,
                 returned, llmCalls, llmFailed, recorder,
                 textVars, normVars, dbVars>>

\* generic.ts parseGeneric: the outer catch, return parseBasic(input)
GenericCatch ==
  /\ pc = "extractThrew"
  /\ caller = "generic"
  /\ genTicket' = WithRaw(doc.basic, doc.text, doc.html)
  /\ source' = "basic"
  /\ pc' = "genericReturn"
  /\ UNCHANGED <<doc, caller, detTicket, detConf95, regexTicket, aiTicket,
                 returned, llmCalls, llmFailed, recorder,
                 textVars, normVars, dbVars>>

\* parsers/index.ts parseTicket: what it does with parseGeneric's result
GenericReturn ==
  /\ pc = "genericReturn"
  /\ returned' = IF doc.mode = "ai_first" /\ detectedBA(doc) /\ looksLikeBA(doc)
                 THEN enrichBAData(genTicket, doc) ELSE genTicket
  /\ pc' = "done"
  /\ UNCHANGED <<doc, caller, detTicket, detConf95, regexTicket, aiTicket,
                 genTicket, source, llmCalls, llmFailed, recorder,
                 textVars, normVars, dbVars>>

\* ba.ts parseBA: the regex extraction, then the generative call whenever the
\* service is configured
ParseBA ==
  /\ pc = "parseBA"
  /\ regexTicket' = WithRaw(doc.regex, doc.text, doc.html)
  /\ IF doc.configured
     THEN /\ caller' = "ba"
          /\ pc' = "extractCheap"
          /\ UNCHANGED <<returned, source>>
     ELSE /\ returned' = WithRaw(doc.regex, doc.text, doc.html)
          /\ source' = "regex"
          /\ pc' = "done"
          /\ UNCHANGED caller
  /\ UNCHANGED <<doc, detTicket, detConf95, aiTicket, genTicket, llmCalls,
                 llmFailed, recorder,
                 textVars, normVars, dbVars>>

\* ba.ts parseBA: if (aiQuality > qualityScore) return aiResult.result
BAAfterExtract ==
  /\ pc = "recorded"
  /\ caller = "ba"
  /\ IF QualityGreater(aiTicket, regexTicket)
     THEN returned' = aiTicket /\ source' = "generative"
     ELSE returned' = regexTicket /\ source' = "regex"
  /\ pc' = "done"
  /\ UNCHANGED <<doc, caller, detTicket, detConf95, regexTicket, aiTicket,
                 genTicket, llmCalls, llmFailed, recorder,
                 textVars, normVars, dbVars>>

\* ba.ts parseBA: catch (error), then return result
BACatch ==
  /\ pc = "extractThrew"
  /\ caller = "ba"
  /\ returned' = regexTicket
  /\ source' = "regex"
  /\ pc' = "done"
  /\ UNCHANGED <<doc, caller, detTicket, detConf95, regexTicket, aiTicket,
                 genTicket, llmCalls, llmFailed, recorder,
                 textVars, normVars, dbVars>>

Next ==
  \/ ParseTicket
  \/ ParseGeneric
  \/ Deterministic
  \/ EnhanceWithLLM
  \/ Gate
  \/ ExtractCheap
  \/ ExtractBurst
  \/ RecordTokenUsage
  \/ GenericAfterExtract
  \/ GenericCatch
  \/ GenericReturn
  \/ ParseBA
  \/ BAAfterExtract
  \/ BACatch

Spec == Init /\ [][Next]_vars

\* the parse with its own steps and the model calls always taken in the end;
\* nothing is assumed of the promise of the recorder's mutation, which the
\* sources give no timeout, so that a property of this specification holds
\* only if it does not depend on the recorder
LiveSpec ==
  /\ Spec
  /\ WF_vars(ParseTicket) /\ WF_vars(ParseGeneric) /\ WF_vars(Deterministic)
  /\ WF_vars(EnhanceWithLLM) /\ WF_vars(Gate) /\ WF_vars(ExtractCheap)
  /\ WF_vars(ExtractBurst) /\ WF_vars(GenericAfterExtract)
  /\ WF_vars(GenericCatch) /\ WF_vars(GenericReturn) /\ WF_vars(ParseBA)
  /\ WF_vars(BAAfterExtract) /\ WF_vars(BACatch)


-----------------------------------------------------------------------------
(* Claims about the parse                                                   *)

\* C1: a returned generative ticket never scores lower than the deterministic
\* ticket of the same parse (the regex ticket under assessExtractionQuality on
\* the BA path, the deterministic ticket under calculateConfidence on the
\* generic path).
C1_GenerativeNeverLower ==
  (pc = "done" /\ source = "generative") =>
     IF caller = "ba"
     THEN ~QualityGreater(regexTicket, aiTicket)
     ELSE ~ConfidenceLess(aiTicket, detTicket)

\* C2: when extractTicket has thrown after a deterministic result was
\* computed, the parse returns that deterministic result (the regex ticket on
\* the BA path, the deterministic ticket on the generic path).
C2_FailureKeepsDeterministic ==
  (pc = "done" /\ llmFailed) =>
     IF caller = "ba"
     THEN returned = regexTicket
     ELSE source = "deterministic"

\* C3: a model call is made only when the deterministic result scores below
\* the acceptance threshold: the enhancement call and the extraction call of
\* the generic path against calculateConfidence, the extraction call of the
\* BA path against assessExtractionQuality on the same 0..100 scale.
C3_GenerativeOnlyBelowThreshold ==
  /\ (llmCalls.enhance > 0 =>
        ~calculateConfidenceAbove(doc.det, AcceptanceThreshold))
  /\ (caller = "generic" /\ llmCalls.cheap > 0 =>
        ~calculateConfidenceAbove(detTicket, AcceptanceThreshold))
  /\ (caller = "ba" /\ llmCalls.cheap > 0 =>
        ~(QualityNum(regexTicket) > AcceptanceThreshold * QualityDen(regexTicket)))

\* C4 as stated: at most two model calls during the parse of one document,
\* every call site counted.
C4_AtMostTwoCalls == TotalCalls <= 2

\* C4 as amended: at most three model calls, of which at most one is the
\* enhancement call, at most one the cheap-tier extraction call and at most
\* one the escalate-tier extraction call, the latter only after the former.
C4_AtMostThreeCalls ==
  /\ TotalCalls <= 3
  /\ llmCalls.enhance <= 1
  /\ llmCalls.cheap <= 1
  /\ llmCalls.burst <= llmCalls.cheap

\* C4 witness: a finished parse that made the three calls
C4_ThreeCallsReached ==
  pc = "done" /\ llmCalls = [enhance |-> 1, cheap |-> 1, burst |-> 1]


-----------------------------------------------------------------------------
(* segmentBuilder.ts: the leg stitcher                                       *)

Waypoint(time, location, isNextDay, terminal, contextIndex) ==
  [time |-> time, location |-> location, isNextDay |-> isNextDay,
   terminal |-> terminal, contextIndex |-> contextIndex]

LegEnd(w) ==
  [time |-> w.time, location |-> w.location, terminal |-> w.terminal,
   isNextDay |-> w.isNextDay]

\* durations.get(flightNo): the map is a sequence of <<key, value>> entries
\* in insertion order, with one entry for each key
MapHas(map, key) == \E k \in 1..Len(map) : map[k][1] = key
MapGet(map, key) ==
  IF MapHas(map, key)
  THEN map[CHOOSE k \in 1..Len(map) : map[k][1] = key][2]
  ELSE NoText

\* legIndex = Math.floor(i / 2), with i the 0-based index of the departure
legIndexOf_WaypointIndex(i) == i
legIndexOf(i) == i \div 2

\* for (let i = 0; i + 1 < waypoints.length; i += 2), i the 0-based index of
\* the departure waypoint and leg the leg the loop body pushes
RECURSIVE StitchLoop(_, _, _, _, _)
StitchLoop(wps, fns, durs, i, acc) ==
  LET dep == wps[i + 1]
      arr == wps[i + 2]
      legIndex == legIndexOf(i)
      hasFlight == legIndex < Len(fns)
      flightNumber == IF hasFlight THEN fns[legIndex + 1] ELSE NoText
      leg == [flightNumber |-> flightNumber,
              departure |-> LegEnd(dep),
              arrival |-> LegEnd(arr),
              duration |-> IF hasFlight THEN MapGet(durs, flightNumber) ELSE NoText]
  IN  IF i + 1 < Len(wps)
      THEN StitchLoop(wps, fns, durs, i + 2, Append(acc, leg))
      ELSE acc

stitchWaypointsIntoLegs(wps, fns, durs) == StitchLoop(wps, fns, durs, 0, <<>>)

\* if (waypoints.length % 2 !== 0) console.warn(...)
\* a console.warn is kept as a record; segment is 0 when the message is not
\* about one segment
StitchWarnings_Silent(wps) == <<>>
StitchWarnings(wps) ==
  IF Len(wps) % 2 # 0
  THEN <<[segment |-> 0, message |-> "Odd number of waypoints"]>>
  ELSE <<>>

-----------------------------------------------------------------------------
(* segmentBuilder.ts: legs to dated segments                                *)

MonthNames == <<"Jan", "Feb", "Mar", "Apr", "May", "Jun",
                "Jul", "Aug", "Sep", "Oct", "Nov", "Dec">>

DaysInMonth(y, m) ==
  IF m = 2
  THEN (IF (y % 4 = 0 /\ y % 100 # 0) \/ y % 400 = 0 THEN 29 ELSE 28)
  ELSE IF m \in {4, 6, 9, 11} THEN 30 ELSE 31

\* a calendar date is [y, m, d]; date.setDate(date.getDate() + 1)
NextDay(dt) ==
  IF dt.d < DaysInMonth(dt.y, dt.m) THEN [dt EXCEPT !.d = @ + 1]
  ELSE IF dt.m < 12 THEN [y |-> dt.y, m |-> dt.m + 1, d |-> 1]
  ELSE [y |-> dt.y + 1, m |-> 1, d |-> 1]

RECURSIVE AddDays(_, _)
AddDays(dt, n) == IF n = 0 THEN dt ELSE AddDays(NextDay(dt), n - 1)

\* formatDate: `${day} ${month} ${year}`, the day not padded
formatDate(dt) == [day |-> dt.d, month |-> MonthNames[dt.m], year |-> dt.y]

\* Number() of a run of digits
RECURSIVE DigitsValue(_)
DigitsValue(ds) ==
  IF ds = <<>> THEN 0
  ELSE 10 * DigitsValue(Sub(ds, 1, Len(ds) - 1)) + DigitVal(ds[Len(ds)])

\* time.split(':').map(Number), as minutes of the day
TimeMinutes(time) ==
  LET c == IndexOf(time, <<":">>)
  IN  60 * DigitsValue(Sub(time, 1, c - 1)) + DigitsValue(Sub(time, c + 1, Len(time)))

getCityName(iata) ==
  CASE iata = Txt.ACC -> "Accra"
    [] iata = Txt.JNB -> "Johannesburg"
    [] iata = Txt.CPT -> "Cape Town"
    [] iata = Txt.LHR -> "London"
    [] iata = <<"C", "D", "G">> -> "Paris"
    [] iata = <<"F", "R", "A">> -> "Frankfurt"
    [] iata = <<"A", "M", "S">> -> "Amsterdam"
    [] iata = <<"D", "X", "B">> -> "Dubai"
    [] iata = <<"J", "F", "K">> -> "New York"
    [] iata = <<"L", "A", "X">> -> "Los Angeles"
    [] iata = <<"L", "O", "S">> -> "Lagos"
    [] iata = <<"A", "B", "V">> -> "Abuja"
    [] OTHER -> iata

\* layoverHours > 20
LongLayoverHours == 20

\* The loop of convertLegsToParsedSegments. Days are counted from the base
\* date; currentDate, depDate and arrDate differ from it by whole days (the
\* process is taken to run in a zone at or east of UTC, where
\* new Date('YYYY-MM-DD') falls on that local day). lastArr is the last
\* arrival in minutes from the base day's midnight, -1 for null.
RECURSIVE ConvertLoop(_, _, _, _, _, _)
ConvertLoop(ls, base, i, currentDay, lastArr, acc) ==
  IF i > Len(ls) THEN acc
  ELSE
    LET leg == ls[i]
        layover == currentDay * 1440 + TimeMinutes(leg.departure.time) - lastArr
        connecting == lastArr # -1 /\ i > 1
        shifted == IF connecting /\ (layover < 0 \/ layover > LongLayoverHours * 60)
                   THEN currentDay + 1 ELSE currentDay
        depDay == IF leg.departure.isNextDay THEN shifted + 1 ELSE shifted
        arrDay == IF leg.arrival.isNextDay THEN depDay + 1 ELSE depDay
        segment ==
          [marketingFlightNo |-> leg.flightNumber,
           dep |-> [iata |-> leg.departure.location,
                    city |-> getCityName(leg.departure.location),
                    terminal |-> leg.departure.terminal,
                    timeLocal |-> leg.departure.time,
                    date |-> formatDate(AddDays(base, depDay))],
           arr |-> [iata |-> leg.arrival.location,
                    city |-> getCityName(leg.arrival.location),
                    terminal |-> leg.arrival.terminal,
                    timeLocal |-> leg.arrival.time,
                    date |-> formatDate(AddDays(base, arrDay))]]
    IN  ConvertLoop(ls, base, i + 1, arrDay,
                    arrDay * 1440 + TimeMinutes(leg.arrival.time),
                    Append(acc, segment))

convertLegsToParsedSegments(ls, base) == ConvertLoop(ls, base, 1, 0, -1, <<>>)


-----------------------------------------------------------------------------
(* textCleaner.ts: preprocessPDFText                                        *)

\* UTF-16 code units removed by the two icon replacements: the first class is
\* written with three emoji (airplane U+2708 U+FE0F, departure U+1F6EB,
\* arrival U+1F6EC) and has no u flag, so it removes their code units; the
\* second is /[\u2708\u2709\u2713\u2714]/g. A character outside ASCII is
\* written as the name of its code unit.
IconChars == {"<2708>", "<FE0F>", "<D83D>", "<DEEB>", "<DEEC>",
              "<2709>", "<2713>", "<2714>"}

\* case-insensitive comparison of one character (the i flag)
AtI(s, i, c) == i >= 1 /\ i <= Len(s) /\ LowerChar(s[i]) = c

\* the least index of the set S, 0 when S is empty: where a regular expression
\* search finds its match, S being the indexes at which the expression matches
FirstIn(S) == IF S = {} THEN 0 ELSE CHOOSE j \in S : \A k \in S : j <= k

\* index of the last character of the longest run of characters of the set cs
\* that starts at i; i - 1 when s[i] is not in cs
RunEnd(s, i, cs) ==
  CHOOSE e \in (i - 1)..Len(s) :
    /\ \A j \in i..e : s[j] \in cs
    /\ (e = Len(s) \/ s[e + 1] \notin cs)

\* end of the match of a rule that starts at i, 0 when there is none
MatchEnd(rule, s, i) ==
  LET
    \* [+]\d+ starting at a: index of the last digit, 0 when there is no match
    PlusDigitsEnd(a) ==
      IF At(s, a, {"+"}) /\ At(s, a + 1, Digit)
      THEN RunEnd(s, a + 1, Digit) ELSE 0

    \* \s*days? after position a (the last digit, 0 when there was none):
    \* index of the last character of the match, 0 when there is no match
    DaysEnd(a) ==
      LET Days(d) ==
            IF a > 0 /\ AtI(s, d, "d") /\ AtI(s, d + 1, "a") /\ AtI(s, d + 2, "y")
            THEN (IF AtI(s, d + 3, "s") THEN d + 3 ELSE d + 2)
            ELSE 0
      IN  Days(RunEnd(s, a + 1, Space) + 1)

    \* \) after position a (0 when there was no match so far)
    ParenEnd(a) == IF a > 0 /\ At(s, a + 1, {")"}) THEN a + 1 ELSE 0

    \* (?:\([+]\d+\s*days?\)|[+]\d+\s*days?|\([+]\d+\)|[+]\d+) starting at a,
    \* the alternatives tried in their order; p1 ends [+]\d+ after a
    \* parenthesis and p2 ends [+]\d+ at a
    NextDayTailEnd(a) ==
      LET First(alt1, alt2, alt3, alt4) ==
            IF alt1 > 0 THEN alt1
            ELSE IF alt2 > 0 THEN alt2
            ELSE IF alt3 > 0 THEN alt3
            ELSE alt4
          Alternatives(p1, p2) ==
            First(ParenEnd(DaysEnd(p1)), DaysEnd(p2), ParenEnd(p1), p2)
      IN  Alternatives(IF At(s, a, {"("}) THEN PlusDigitsEnd(a + 1) ELSE 0,
                       PlusDigitsEnd(a))

    \* /\ba\s+b\s+c\b/gi starting at i, for the letters of code (lower case);
    \* h and r are where the second and the third letter are looked for
    SpacedCodeEnd(code) ==
      LET Third(h, r) ==
            IF /\ Boundary(s, i) /\ AtI(s, i, code[1])
               /\ At(s, i + 1, Space) /\ AtI(s, h, code[2])
               /\ At(s, h + 1, Space) /\ AtI(s, r, code[3])
               /\ Boundary(s, r + 1)
            THEN r ELSE 0
          Second(h) == Third(h, RunEnd(s, h + 1, Space) + 1)
      IN  Second(RunEnd(s, i + 1, Space) + 1)

    SpacedCodes == [lhr |-> <<"l", "h", "r">>, jnb |-> <<"j", "n", "b">>,
                    cpt |-> <<"c", "p", "t">>, acc |-> <<"a", "c", "c">>]
  IN
  CASE rule = "icons" -> IF s[i] \in IconChars THEN i ELSE 0
    \* /(\w+)-\n(\w+)/
    [] rule = "dehyphenate" ->
         LET k == RunEnd(s, i, WordChar)
         IN  IF k >= i /\ At(s, k + 1, {"-"}) /\ At(s, k + 2, {"\n"})
                /\ At(s, k + 3, WordChar)
             THEN RunEnd(s, k + 3, WordChar) ELSE 0
    \* /\s+/
    [] rule = "spaces" -> IF s[i] \in Space THEN RunEnd(s, i, Space) ELSE 0
    \* /\n{3,}/
    [] rule = "newlines" ->
         IF RunEnd(s, i, {"\n"}) >= i + 2 THEN RunEnd(s, i, {"\n"}) ELSE 0
    \* /\b([A-Z]{3})(?=[A-Z]{3})\b/: the lookahead consumes nothing, so the
    \* closing \b is tested between the third and fourth letter
    [] rule = "glued" ->
         IF /\ Boundary(s, i)
            /\ \A j \in i..(i + 2) : At(s, j, Upper)
            /\ \A j \in (i + 3)..(i + 5) : At(s, j, Upper)
            /\ Boundary(s, i + 3)
         THEN i + 2 ELSE 0
    \* /\b(\d{2})(\d{2})\b/
    [] rule = "hhmm" ->
         IF /\ Boundary(s, i)
            /\ \A j \in i..(i + 3) : At(s, j, Digit)
            /\ Boundary(s, i + 4)
         THEN i + 3 ELSE 0
    \* /\b(\d):(\d{2})\b/
    [] rule = "pad" ->
         IF /\ Boundary(s, i)
            /\ At(s, i, Digit) /\ At(s, i + 1, {":"})
            /\ At(s, i + 2, Digit) /\ At(s, i + 3, Digit)
            /\ Boundary(s, i + 4)
         THEN i + 3 ELSE 0
    \* /(\d{2}:\d{2})\s*(?:...)/gi
    [] rule = "nextday" ->
         IF /\ At(s, i, Digit) /\ At(s, i + 1, Digit) /\ At(s, i + 2, {":"})
            /\ At(s, i + 3, Digit) /\ At(s, i + 4, Digit)
         THEN NextDayTailEnd(RunEnd(s, i + 5, Space) + 1)
         ELSE 0
    [] rule \in DOMAIN SpacedCodes -> SpacedCodeEnd(SpacedCodes[rule])

\* what replaces the match s[i..e] of a rule
Replacement(rule, s, i, e) ==
  LET
    \* hour >= 0 && hour <= 23 && min >= 0 && min <= 59
    IsClock(h, m) == DigitsValue(h) <= 23 /\ DigitsValue(m) <= 59
  IN
  CASE rule = "icons" -> <<>>
    [] rule = "dehyphenate" ->
         LET k == RunEnd(s, i, WordChar) IN Sub(s, i, k) \o Sub(s, k + 3, e)
    [] rule = "spaces" -> <<" ">>
    [] rule = "newlines" -> <<"\n", "\n">>
    [] rule = "glued" -> Sub(s, i, e) \o <<" ">>
    [] rule = "hhmm" ->
         IF IsClock(Sub(s, i, i + 1), Sub(s, i + 2, i + 3))
         THEN Sub(s, i, i + 1) \o <<":">> \o Sub(s, i + 2, i + 3)
         ELSE Sub(s, i, e)
    [] rule = "pad" -> <<"0">> \o Sub(s, i, e)
    [] rule = "nextday" -> Sub(s, i, i + 4) \o Txt.NEXT_DAY
    [] rule = "lhr" -> Txt.LHR
    [] rule = "jnb" -> Txt.JNB
    [] rule = "cpt" -> Txt.CPT
    [] rule = "acc" -> Txt.ACC

\* s.replace(/rule/g, replacement): the matches are found from left to right,
\* each search starting after the previous match
\* j is where the first match from i on starts (0 when there is none) and e
\* where it ends
RECURSIVE ReplaceFrom(_, _, _)
ReplaceFrom(rule, s, i) ==
  LET Spliced(j, e) ==
        IF j = 0 THEN Sub(s, i, Len(s))
        ELSE Sub(s, i, j - 1) \o Replacement(rule, s, j, e)
               \o ReplaceFrom(rule, s, e + 1)
      FirstMatch(j) == Spliced(j, IF j = 0 THEN 0 ELSE MatchEnd(rule, s, j))
  IN  FirstMatch(FirstIn({k \in i..Len(s) : MatchEnd(rule, s, k) > 0}))

\* the replacements of the rules, one after the other in their order
RECURSIVE ReplaceAll(_, _)
ReplaceAll(rules, s) ==
  IF rules = <<>> THEN s
  ELSE ReplaceAll(Tail(rules), ReplaceFrom(Head(rules), s, 1))

normalizeTimeFormats(text) == ReplaceAll(<<"hhmm", "pad">>, text)

markNextDayArrivals(text) == ReplaceAll(<<"nextday">>, text)

preprocessPDFText(raw) ==
  ReplaceAll(<<"lhr", "jnb", "cpt", "acc">>,
    markNextDayArrivals(normalizeTimeFormats(
      ReplaceAll(<<"icons", "dehyphenate", "spaces", "newlines", "glued">>, raw))))


-----------------------------------------------------------------------------
(* textCleaner.ts: the lexical extractors and the waypoint detector         *)

\* String.prototype.trim
Trim(s) ==
  IF \A i \in 1..Len(s) : s[i] \in Space THEN <<>>
  ELSE LET a == CHOOSE i \in 1..Len(s) :
                  s[i] \notin Space /\ \A j \in 1..(i - 1) : s[j] \in Space
           b == CHOOSE i \in 1..Len(s) :
                  s[i] \notin Space /\ \A j \in (i + 1)..Len(s) : s[j] \in Space
       IN  Sub(s, a, b)

\* s.split('\n')
RECURSIVE SplitLines(_)
SplitLines(s) ==
  LET n == IndexOf(s, <<"\n">>)
  IN  IF n = 0 THEN <<s>>
      ELSE <<Sub(s, 1, n - 1)>> \o SplitLines(Sub(s, n + 1, Len(s)))

\* ls.join(sep), sep a text
RECURSIVE Join(_, _)
Join(ls, sep) ==
  IF ls = <<>> THEN <<>>
  ELSE IF Len(ls) = 1 THEN ls[1]
  ELSE ls[1] \o sep \o Join(Tail(ls), sep)

\* map.set(key, value) of a Map kept as entries in insertion order
MapSet(map, key, value) ==
  IF MapHas(map, key)
  THEN [k \in 1..Len(map) |->
          IF map[k][1] = key THEN <<key, value>> ELSE map[k]]
  ELSE Append(map, <<key, value>>)

\* position of the parenthesis that ends the run of city characters starting
\* at the letter i, when "(IATA)" stands there; 0 otherwise
CityParen(s, i) ==
  LET
    \* the class [A-Za-z\s.'-] of the city pattern
    CityChar == Letter \cup Space \cup {".", "'", "-"}
  IN
  LET q == RunEnd(s, i, CityChar) + 1
  IN  IF /\ At(s, q, {"("})
         /\ \A j \in (q + 1)..(q + 3) : At(s, j, Upper)
         /\ At(s, q + 4, {")"})
      THEN q ELSE 0

\* first index of the separator \s*(?:\.{2,}|\s+) that ends at q - 1, as the
\* lazy city group leaves it: the longest such suffix that starts after i + 1
CitySepStart(s, i, q) ==
  LET cands == {j \in (i + 2)..(q - 1) :
                  \/ \A k \in j..(q - 1) : s[k] \in Space
                  \/ \E d \in j..(q - 2) :
                       /\ \A k \in j..(d - 1) : s[k] \in Space
                       /\ \A k \in d..(q - 1) : s[k] = "."}
  IN  IF cands = {} THEN 0
      ELSE CHOOSE j \in cands : \A k \in cands : j <= k

\* /([A-Za-z][A-Za-z\s.'-]+?)\s*(?:\.{2,}|\s+)\(([A-Z]{3})\)/ starting at i
CityMatches(s, i) ==
  /\ i <= Len(s) /\ s[i] \in Letter
  /\ CityParen(s, i) > 0
  /\ CitySepStart(s, i, CityParen(s, i)) > 0

commonMappings ==
  << <<<<"a","c","c","r","a">>, Txt.ACC>>,
     <<<<"j","o","h","a","n","n","e","s","b","u","r","g">>, Txt.JNB>>,
     <<<<"j","o","b","u","r","g">>, Txt.JNB>>,
     <<<<"c","a","p","e"," ","t","o","w","n">>, Txt.CPT>>,
     <<<<"l","o","n","d","o","n">>, Txt.LHR>>,
     <<<<"h","e","a","t","h","r","o","w">>, Txt.LHR>> >>

\* the while loop over cityIataPattern.exec(text)
RECURSIVE CityScan(_, _, _)
CityScan(s, i, map) ==
  LET j == FirstIn({k \in i..Len(s) : CityMatches(s, k)})
      q == CityParen(s, j)
      city == Trim(Sub(s, j, CitySepStart(s, j, q) - 1))
      iata == Sub(s, q + 1, q + 3)
  IN  IF j = 0 THEN map
      ELSE CityScan(s, q + 5,
                    MapSet(MapSet(map, ToLowerCase(city), iata), iata, iata))

\* the for loop over commonMappings: only keys that are not yet present
RECURSIVE AddCommon(_, _)
AddCommon(map, k) ==
  IF k > Len(commonMappings) THEN map
  ELSE AddCommon(IF MapHas(map, commonMappings[k][1]) THEN map
                 ELSE Append(map, commonMappings[k]), k + 1)

buildCityIATAMap(text) == AddCommon(CityScan(text, 1, <<>>), 1)

directMap ==
  << <<<<"a","c","c","r","a">>, Txt.ACC>>,
     <<<<"j","o","h","a","n","n","e","s","b","u","r","g">>, Txt.JNB>>,
     <<<<"c","a","p","e"," ","t","o","w","n">>, Txt.CPT>>,
     <<<<"l","o","n","d","o","n">>, Txt.LHR>>,
     <<<<"p","a","r","i","s">>, <<"C","D","G">>>>,
     <<<<"f","r","a","n","k","f","u","r","t">>, <<"F","R","A">>>>,
     <<<<"a","m","s","t","e","r","d","a","m">>, <<"A","M","S">>>> >>


\* line.match(/^(\d{1,2}:\d{2})\s*(.*)$/): length of the time, 0 for no match
TimePrefixLen(line) ==
  IF /\ At(line, 1, Digit) /\ At(line, 2, Digit) /\ At(line, 3, {":"})
     /\ At(line, 4, Digit) /\ At(line, 5, Digit)
  THEN 5
  ELSE IF /\ At(line, 1, Digit) /\ At(line, 2, {":"})
          /\ At(line, 3, Digit) /\ At(line, 4, Digit)
  THEN 4 ELSE 0

\* nextLine.match(/\(([A-Z]{3})\)/): the first code in parentheses, or NoText
ParenIata(line) ==
  LET hits == {i \in 1..Len(line) :
                 /\ line[i] = "("
                 /\ \A j \in (i + 1)..(i + 3) : At(line, j, Upper)
                 /\ At(line, i + 4, {")"})}
  IN  IF hits = {} THEN NoText
      ELSE LET i == CHOOSE h \in hits : \A k \in hits : h <= k
           IN  Sub(line, i + 1, i + 3)

\* the loop over Array.from(cityIataMap.keys()): the value of the first key
\* that contains cleanCity or is contained in it
RECURSIVE MapCityLookup(_, _, _)
MapCityLookup(map, cleanCity, k) ==
  IF k > Len(map) THEN NoText
  ELSE IF \/ Includes(cleanCity, ToLowerCase(map[k][1]))
          \/ Includes(ToLowerCase(map[k][1]), cleanCity)
  THEN map[k][2]
  ELSE MapCityLookup(map, cleanCity, k + 1)

\* the resolution of the airport code of a time line
ResolveLocation(lines, i, city, map) ==
  LET fromNext == IF i + 1 <= Len(lines) THEN ParenIata(lines[i + 1]) ELSE NoText
      cleanCity == ToLowerCase(Trim(SelectSeq(city,
                     LAMBDA c : c \in Letter \cup Space)))
      direct == MapGet(directMap, cleanCity)
  IN  IF Truthy(fromNext) THEN fromNext
      ELSE IF ~Truthy(city) THEN NoText
      ELSE IF Truthy(direct) THEN direct
      ELSE MapCityLookup(map, cleanCity, 1)

\* surroundingText.match(/Terminal\s*([A-Z0-9]+)/i): the captured group
TerminalOf(text) ==
  LET valueAt(i) == RunEnd(text, i + 8, Space) + 1
      hits == {i \in 1..Len(text) :
                 /\ MatchAt(ToLowerCase(text), Txt.terminal, i)
                 /\ valueAt(i) <= Len(text)
                 /\ text[valueAt(i)] \in Letter \cup Digit}
  IN  IF hits = {} THEN NoText
      ELSE LET i == CHOOSE h \in hits : \A k \in hits : h <= k
           IN  Sub(text, valueAt(i), RunEnd(text, valueAt(i), Letter \cup Digit))

\* extractWaypoints' loop without the seenWaypoints test
RECURSIVE WaypointLoop_NoSeen(_, _, _, _)
WaypointLoop_NoSeen(lines, map, i, acc) ==
  IF i > Len(lines) THEN acc
  ELSE
    LET line == Trim(lines[i])
        tl == TimePrefixLen(line)
        time == Sub(line, 1, tl)
        city == Trim(Sub(line, tl + 1, Len(line)))
        location == ResolveLocation(lines, i, city, map)
        around == Join(Sub(lines, Max(1, i - 1), Min(i + 2, Len(lines))), <<" ">>)
        isNextDay == \/ Includes(around, Txt.Plus1Day)
                     \/ Includes(around, Txt.ParenPlus1Day)
                     \/ Includes(around, Txt.Plus1)
    IN  IF \/ line = <<>> \/ line = Txt.ItineraryDetails \/ line = Txt.YourFare
           \/ tl = 0 \/ ~Truthy(location)
        THEN WaypointLoop_NoSeen(lines, map, i + 1, acc)
        ELSE WaypointLoop_NoSeen(lines, map, i + 1,
               Append(acc, Waypoint(time, location, isNextDay,
                                    TerminalOf(around), i - 1)))

\* the for loop of extractWaypoints over the lines (i is 1-based here, the
\* contextIndex stored is the 0-based one of the source)
RECURSIVE WaypointLoop(_, _, _, _)
WaypointLoop(lines, map, i, acc) ==
  IF i > Len(lines) THEN acc
  ELSE
    LET line == Trim(lines[i])
        tl == TimePrefixLen(line)
        time == Sub(line, 1, tl)
        city == Trim(Sub(line, tl + 1, Len(line)))
        location == ResolveLocation(lines, i, city, map)
        seen == \E k \in 1..Len(acc) :
                  acc[k].time = time /\ acc[k].location = location
        around == Join(Sub(lines, Max(1, i - 1), Min(i + 2, Len(lines))), <<" ">>)
        isNextDay == \/ Includes(around, Txt.Plus1Day)
                     \/ Includes(around, Txt.ParenPlus1Day)
                     \/ Includes(around, Txt.Plus1)
    IN  IF \/ line = <<>> \/ line = Txt.ItineraryDetails \/ line = Txt.YourFare
           \/ tl = 0 \/ ~Truthy(location) \/ seen
        THEN WaypointLoop(lines, map, i + 1, acc)
        ELSE WaypointLoop(lines, map, i + 1,
               Append(acc, Waypoint(time, location, isNextDay,
                                    TerminalOf(around), i - 1)))

\* waypoints.sort((a, b) => a.contextIndex - b.contextIndex): the loop appends
\* in increasing contextIndex, so the stable sort leaves the order as it is
extractWaypoints(text, map) ==
  LET start == IndexOf(text, Txt.ItineraryDetails)
      searchText == IF start # 0 THEN Sub(text, start, Len(text)) ELSE text
  IN  WaypointLoop(SplitLines(searchText), map, 1, <<>>)



\* /Flight\s+number\s+([A-Z]{2})\s?(\d{3,4})/gi starting at i: the positions
\* <<first letter, first digit, last digit>>, or <<>> when there is no match
FlightNumberMatch(s, i) ==
  LET low == ToLowerCase(s)
      w1 == RunEnd(s, i + 6, Space)
      w2 == RunEnd(s, w1 + 7, Space)
      c == w2 + 1
      d == IF At(s, c + 2, Space) /\ At(s, c + 3, Digit) THEN c + 3 ELSE c + 2
      e == IF At(s, d + 3, Digit) THEN d + 3 ELSE d + 2
  IN  IF /\ MatchAt(low, Txt.flight, i)
         /\ w1 >= i + 6
         /\ MatchAt(low, Txt.number, w1 + 1)
         /\ w2 >= w1 + 7
         /\ c + 1 <= Len(s) /\ s[c] \in Letter /\ s[c + 1] \in Letter
         /\ \A k \in d..(d + 2) : At(s, k, Digit)
      THEN <<c, d, e>> ELSE <<>>

\* /\b(SA|BA|...)\s?(\d{3,4})\b/g starting at i
AirlineMatch(s, i) ==
  LET
    AirlinePrefixes == {<<"S","A">>, <<"B","A">>, <<"A","F">>, <<"K","L">>,
                        <<"L","H">>, <<"V","S">>, <<"A","A">>, <<"D","L">>,
                        <<"U","A">>, <<"E","K">>, <<"Q","R">>, <<"S","Q">>,
                        <<"C","X">>}
  IN
  LET d == IF At(s, i + 2, Space) /\ At(s, i + 3, Digit) THEN i + 3 ELSE i + 2
      e == IF At(s, d + 3, Digit) /\ Boundary(s, d + 4) THEN d + 3 ELSE d + 2
  IN  IF /\ Boundary(s, i)
         /\ i + 1 <= Len(s) /\ Sub(s, i, i + 1) \in AirlinePrefixes
         /\ \A k \in d..(d + 2) : At(s, k, Digit)
         /\ Boundary(s, e + 1)
      THEN <<i, d, e>> ELSE <<>>

\* the while loops of extractFlightNumbers: explicit TRUE scans for the
\* "Flight number" pattern, FALSE for the airline-code pattern
RECURSIVE FlightScan(_, _, _, _)
FlightScan(s, i, explicit, acc) ==
  LET at(k) == IF explicit THEN FlightNumberMatch(s, k) ELSE AirlineMatch(s, k)
      \* if (!flightNumbers.includes(flightNo)) flightNumbers.push(flightNo)
      Pushed(flightNo) ==
        IF \E k \in 1..Len(acc) : acc[k] = flightNo
        THEN acc ELSE Append(acc, flightNo)
      \* m is the match that starts at j
      Matched(j, m) ==
        IF j = 0 THEN acc
        ELSE FlightScan(s, m[3] + 1, explicit,
               Pushed(Sub(s, m[1], m[1] + 1) \o Sub(s, m[2], m[3])))
      FirstMatch(j) == Matched(j, IF j = 0 THEN <<>> ELSE at(j))
  IN  FirstMatch(FirstIn({k \in i..Len(s) : at(k) # <<>>}))

extractFlightNumbers(text) ==
  LET Fallback(found) ==
        IF Len(found) = 0 THEN FlightScan(text, 1, FALSE, <<>>) ELSE found
  IN  Fallback(FlightScan(text, 1, TRUE, <<>>))

\* characters of context taken on each side of a flight number
DurationContext == 100

\* context.match(/(\d+)h\s*(\d{1,2})min/), rendered `${1}h ${2}min`
DurationOf(context) ==
  LET hEnd(p) == RunEnd(context, p, Digit)
      mStart(p) == RunEnd(context, hEnd(p) + 2, Space) + 1
      mEnd(p) == RunEnd(context, mStart(p), Digit)
      hits == {p \in 1..Len(context) :
                 /\ context[p] \in Digit
                 /\ At(context, hEnd(p) + 1, {"h"})
                 /\ mStart(p) <= Len(context)
                 /\ mEnd(p) - mStart(p) \in {0, 1}
                 /\ MatchAt(context, Txt.min, mEnd(p) + 1)}
  IN  IF hits = {} THEN NoText
      ELSE LET p == CHOOSE h \in hits : \A k \in hits : h <= k
           IN  Sub(context, p, hEnd(p)) \o <<"h", " ">>
                 \o Sub(context, mStart(p), mEnd(p)) \o Txt.min

\* the while loop of extractDurations over /([A-Z]{2})\s?(\d{2,4})/g
RECURSIVE DurationScan(_, _, _)
DurationScan(s, i, map) ==
  LET digits(k) == IF At(s, k + 2, Space) /\ At(s, k + 3, Digit) THEN k + 3 ELSE k + 2
      last(k) == Min(RunEnd(s, digits(k), Digit), digits(k) + 3)
      j == FirstIn({k \in i..Len(s) :
             /\ At(s, k, Upper) /\ At(s, k + 1, Upper)
             /\ digits(k) <= Len(s) /\ last(k) >= digits(k) + 1})
      flightNo == Sub(s, j, j + 1) \o Sub(s, digits(j), last(j))
      context == Sub(s, Max(1, j - DurationContext),
                     Min(Len(s), j - 1 + DurationContext))
      duration == DurationOf(context)
  IN  IF j = 0 THEN map
      ELSE DurationScan(s, last(j) + 1,
             IF Truthy(duration) THEN MapSet(map, flightNo, duration) ELSE map)

extractDurations(text) == DurationScan(text, 1, <<>>)

monthMap == << <<"j","a","n">>, <<"f","e","b">>, <<"m","a","r">>,
               <<"a","p","r">>, <<"m","a","y">>, <<"j","u","n">>,
               <<"j","u","l">>, <<"a","u","g">>, <<"s","e","p">>,
               <<"o","c","t">>, <<"n","o","v">>, <<"d","e","c">> >>

\* /(\d{1,2})\s+(Jan|...|Dec)\s+(\d{4})/i starting at i: the date, or NoDate
MonthNameDateAt(s, i) ==
  LET low == ToLowerCase(s)
      dEnd == IF At(s, i + 1, Digit) THEN i + 1 ELSE i
      w1 == RunEnd(s, dEnd + 1, Space)
      w2 == RunEnd(s, w1 + 4, Space)
  IN  IF /\ At(s, i, Digit)
         /\ w1 >= dEnd + 1
         /\ \E m \in 1..12 : MatchAt(low, monthMap[m], w1 + 1)
         /\ w2 >= w1 + 4
         /\ \A k \in (w2 + 1)..(w2 + 4) : At(s, k, Digit)
      THEN [y |-> DigitsValue(Sub(s, w2 + 1, w2 + 4)),
            m |-> CHOOSE m \in 1..12 : MatchAt(low, monthMap[m], w1 + 1),
            d |-> DigitsValue(Sub(s, i, dEnd))]
      ELSE NoDate

\* /(\d{4})-(\d{2})-(\d{2})/ starting at i
IsoDateAt(s, i) ==
  IF /\ \A k \in i..(i + 3) : At(s, k, Digit)
     /\ At(s, i + 4, {"-"})
     /\ At(s, i + 5, Digit) /\ At(s, i + 6, Digit)
     /\ At(s, i + 7, {"-"})
     /\ At(s, i + 8, Digit) /\ At(s, i + 9, Digit)
  THEN [y |-> DigitsValue(Sub(s, i, i + 3)),
        m |-> DigitsValue(Sub(s, i + 5, i + 6)),
        d |-> DigitsValue(Sub(s, i + 8, i + 9))]
  ELSE NoDate

\* deterministicParser.ts extractBaseDate: the first month-name date of the
\* text, else the first ISO date, else null
extractBaseDate(text) ==
  LET named == {i \in 1..Len(text) : MonthNameDateAt(text, i) # NoDate}
      iso == {i \in 1..Len(text) : IsoDateAt(text, i) # NoDate}
  IN  IF named # {}
      THEN MonthNameDateAt(text, CHOOSE i \in named : \A k \in named : i <= k)
      ELSE IF iso # {}
      THEN IsoDateAt(text, CHOOSE i \in iso : \A k \in iso : i <= k)
      ELSE NoDate


-----------------------------------------------------------------------------
(* segmentBuilder.ts: validateSegments and buildSegmentsFromText             *)

\* new Date(`${date} ${timeLocal}`).getTime(), in minutes
PlaceMinutes(place) ==
  LET
    \* days from 1 Jan of year 1 to the date formatDate printed
    DayNumber(date) ==
      LET y == date.year - 1
          m == CHOOSE k \in 1..12 : MonthNames[k] = date.month
          RECURSIVE Before(_)
          Before(k) == IF k = 0 THEN 0 ELSE DaysInMonth(date.year, k) + Before(k - 1)
      IN  365 * y + (y \div 4) - (y \div 100) + (y \div 400) + Before(m - 1) + date.day
  IN
  DayNumber(place.date) * 1440 + TimeMinutes(place.timeLocal)

ShortLayoverMinutes == 30
LongLayoverWarningHours == 48

\* the errors of the two loops, in the order they are pushed
validateSegments(segs) ==
  LET
    err(i, cond, text) == IF cond THEN <<[segment |-> i, message |-> text]>> ELSE <<>>
    layover(i) == PlaceMinutes(segs[i].dep) - PlaceMinutes(segs[i - 1].arr)

    \* the errors of the first loop for segment i
    FieldErrors(i) ==
      LET seg == segs[i]
      IN  err(i, ~Truthy(seg.marketingFlightNo), "Missing flight number")
          \o err(i, ~Truthy(seg.dep.iata) \/ ~Truthy(seg.arr.iata), "Missing airport codes")
          \o err(i, ~Truthy(seg.dep.timeLocal) \/ ~Truthy(seg.arr.timeLocal), "Missing times")
          \o (IF i > 1
              THEN err(i, layover(i) < 0, "Departure before previous arrival")
                   \o err(i, layover(i) < ShortLayoverMinutes, "Layover too short")
              ELSE <<>>)

    \* the errors of the second loop for segment i > 1
    OrderErrors(i) ==
      err(i, layover(i) < 0, "Departure before previous arrival (dates)")
      \o (IF layover(i) < ShortLayoverMinutes
          THEN err(i, TRUE, "Unrealistically short layover")
          ELSE err(i, layover(i) > LongLayoverWarningHours * 60, "Unusually long layover"))

    RECURSIVE FieldLoop(_)
    FieldLoop(i) == IF i > Len(segs) THEN <<>> ELSE FieldErrors(i) \o FieldLoop(i + 1)

    RECURSIVE OrderLoop(_)
    OrderLoop(i) == IF i > Len(segs) THEN <<>> ELSE OrderErrors(i) \o OrderLoop(i + 1)
  IN
  FieldLoop(1) \o OrderLoop(2)

\* buildSegmentsFromText, first statement: the legs and the stitcher's warning
Stitch ==
  /\ stage = "stitch"
  /\ legs' = stitchWaypointsIntoLegs(waypoints, flightNumbers, durations)
  /\ warnings' = warnings \o StitchWarnings(waypoints)
  /\ stage' = "convert"
  /\ UNCHANGED <<parseVars, normVars, dbVars, rawText, cleanedText, cleanedTwice, waypoints,
                 flightNumbers, durations, baseDate, segments>>

\* buildSegmentsFromText, the rest: the dated segments and their validation,
\* whose errors are only logged
Convert ==
  /\ stage = "convert"
  /\ segments' = convertLegsToParsedSegments(legs, baseDate)
  /\ warnings' = warnings \o validateSegments(segments')
  /\ stage' = "done"
  /\ UNCHANGED <<parseVars, normVars, dbVars, rawText, cleanedText, cleanedTwice, waypoints,
                 flightNumbers, durations, baseDate, legs>>


-----------------------------------------------------------------------------
(* The segment builder on detector output of every shape                    *)

MaxWaypoints == 4
MaxFlights == 2


\* sequences of at most n elements of S, no element twice
DistinctSeqs(S, n) ==
  UNION {{q \in [1..k -> S] : \A a, b \in 1..k : a # b => q[a] # q[b]} : k \in 0..n}

\* extractWaypoints keeps one waypoint for each (time, location) and returns
\* them by increasing contextIndex
WaypointLists ==
  {[k \in 1..Len(q) |->
      Waypoint(q[k].time, q[k].location, q[k].isNextDay, q[k].terminal, 2 * (k - 1))]
     : q \in DistinctSeqs(
         { [time |-> Txt.t2030, location |-> Txt.ACC, isNextDay |-> FALSE, terminal |-> NoText],
           [time |-> Txt.t0425, location |-> Txt.JNB, isNextDay |-> TRUE, terminal |-> NoText],
           [time |-> Txt.t0820, location |-> Txt.JNB, isNextDay |-> FALSE, terminal |-> NoText],
           [time |-> Txt.t1030, location |-> Txt.CPT, isNextDay |-> FALSE, terminal |-> NoText],
           [time |-> Txt.t2030, location |-> Txt.LHR, isNextDay |-> TRUE, terminal |-> Txt.Terminal5] },
         MaxWaypoints)}

\* new Date().toISOString().split('T')[0] on the day of the parse
Today == [y |-> 2025, m |-> 9, d |-> 28]

StitchInit ==
  /\ NormIdle
  /\ DbIdle
  /\ ParseIdle
  /\ stage = "stitch"
  /\ rawText = <<>>
  /\ cleanedText = <<>>
  /\ cleanedTwice = <<>>
  /\ waypoints \in WaypointLists
  \* extractFlightNumbers keeps each flight number once
  /\ flightNumbers \in DistinctSeqs({Txt.SA053, Txt.BA123, <<"S", "A", "3", "0", "3">>},
                                   MaxFlights)
  /\ durations \in {<<>>, << <<Txt.SA053, Txt.d2h30min>> >>}
  /\ baseDate \in {Today, [y |-> 2025, m |-> 9, d |-> 30],
                   [y |-> 2024, m |-> 12, d |-> 31]}
  /\ legs = <<>>
  /\ segments = <<>>
  /\ warnings = <<>>

StitchNext == Stitch \/ Convert

StitchSpec == StitchInit /\ [][StitchNext]_vars

\* the stitcher has run
Stitched == stage \in {"convert", "done"}

\* C5: from 2N waypoints the stitcher makes N legs; from 2N+1 waypoints it
\* makes N legs too, leaves out only the last waypoint, and logs a warning
\* instead of failing.
C5_PairsAndDropsLast ==
  Stitched =>
    /\ Len(legs) = Len(waypoints) \div 2
    /\ \A k \in 1..(2 * Len(legs)) :
         LegEnd(waypoints[k]) =
           IF k % 2 = 1 THEN legs[(k + 1) \div 2].departure
           ELSE legs[k \div 2].arrival
    /\ Len(waypoints) % 2 = 1 =>
         \E w \in 1..Len(warnings) :
           warnings[w].message = "Odd number of waypoints"

\* C5 witness: three waypoints were stitched into one leg, with a warning
C5_OddStitched ==
  /\ Stitched
  /\ Len(waypoints) = 3
  /\ Len(legs) = 1
  /\ warnings # <<>>

\* C6: leg i is made of waypoints 2i (departure) and 2i+1 (arrival), counted
\* from 0, and carries flightNumbers[i] exactly when i is below the number
\* of flight numbers; so no waypoint is in two legs.
C6_LegPairing ==
  Stitched =>
    \A k \in 1..Len(legs) :
      /\ legs[k].departure = LegEnd(waypoints[2 * k - 1])
      /\ legs[k].arrival = LegEnd(waypoints[2 * k])
      /\ legs[k].flightNumber =
           IF k <= Len(flightNumbers) THEN flightNumbers[k] ELSE NoText

\* C6 witness: two legs were made with one flight number, which went to the
\* first leg only
C6_TwoLegsOneFlight ==
  /\ Stitched
  /\ Len(legs) = 2
  /\ Len(flightNumbers) = 1
  /\ legs[1].flightNumber = flightNumbers[1]
  /\ legs[2].flightNumber = NoText


-----------------------------------------------------------------------------
(* The normalizer on raw text of every shape                                *)

MaxFrags == 3

\* pieces of raw PDF text that the rules of preprocessPDFText act on
Fragments ==
  {
    \* '20'
    <<"2", "0">>,
    \* ':'
    <<":">>,
    \* '4:25'
    <<"4", ":", "2", "5">>,
    \* '08:20'
    <<"0", "8", ":", "2", "0">>,
    \* ' '
    <<" ">>,
    \* a line break
    <<"\n">>,
    \* '-' and a line break
    <<"-", "\n">>,
    \* '+1'
    <<"+", "1">>,
    \* '(+1 day)'
    <<"(", "+", "1", " ", "d", "a", "y", ")">>,
    \* ' day'
    <<" ", "d", "a", "y">>,
    \* 'CPTJNB'
    <<"C", "P", "T", "J", "N", "B">>,
    \* 'l h r'
    <<"l", " ", "h", " ", "r">>,
    \* the airplane icon U+2708
    <<"<2708>">> }

TextInit ==
  /\ NormIdle
  /\ DbIdle
  /\ ParseIdle
  /\ stage = "preprocess"
  \* the raw texts: up to MaxFrags fragments, one after the other
  /\ rawText \in {Join(q, <<>>) : q \in UNION {[1..k -> Fragments] : k \in 0..MaxFrags}}
  /\ cleanedText = <<>>
  /\ cleanedTwice = <<>>
  /\ waypoints = <<>>
  /\ flightNumbers = <<>>
  /\ durations = <<>>
  /\ baseDate = NoDate
  /\ legs = <<>>
  /\ segments = <<>>
  /\ warnings = <<>>

\* parseWithDeterministicPreprocessing, step 1 (the texts drawn do not name
\* South African Airways, so the simple extractor is not taken)
Preprocess ==
  /\ stage = "preprocess"
  /\ cleanedText' = preprocessPDFText(rawText)
  /\ stage' = "cleaned"
  /\ UNCHANGED <<parseVars, normVars, dbVars, rawText, cleanedTwice, waypoints, flightNumbers,
                 durations, baseDate, legs, segments, warnings>>

\* preprocessPDFText applied to text that it has already cleaned
Renormalize ==
  /\ stage = "cleaned"
  /\ cleanedTwice' = preprocessPDFText(cleanedText)
  /\ stage' = "renormalized"
  /\ UNCHANGED <<parseVars, normVars, dbVars, rawText, cleanedText, waypoints, flightNumbers,
                 durations, baseDate, legs, segments, warnings>>

TextNext == Preprocess \/ Renormalize

TextSpec == TextInit /\ [][TextNext]_vars

-----------------------------------------------------------------------------
(* The deterministic pipeline on itinerary text                             *)

MaxBlocks == 3

\* pieces of an itinerary as the PDF text has them, one item on each line
Blocks ==
  {
    \* '20:30 Accra' / 'Kotoka International (ACC)'
    <<"2", "0", ":", "3", "0", " ", "A", "c", "c", "r", "a", "\n", "K", "o",
      "t", "o", "k", "a", " ", "I", "n", "t", "e", "r", "n", "a", "t", "i",
      "o", "n", "a", "l", " ", "(", "A", "C", "C", ")">>,
    \* '04:25 Johannesburg' / '(+1 day)' / 'O.R. Tambo International (JNB)'
    <<"0", "4", ":", "2", "5", " ", "J", "o", "h", "a", "n", "n", "e", "s",
      "b", "u", "r", "g", "\n", "(", "+", "1", " ", "d", "a", "y", ")", "\n",
      "O", ".", "R", ".", " ", "T", "a", "m", "b", "o", " ", "I", "n", "t",
      "e", "r", "n", "a", "t", "i", "o", "n", "a", "l", " ", "(", "J", "N",
      "B", ")">>,
    \* '08:20 Cape Town (CPT)'
    <<"0", "8", ":", "2", "0", " ", "C", "a", "p", "e", " ", "T", "o", "w",
      "n", " ", "(", "C", "P", "T", ")">>,
    \* '10:30 London' / 'Terminal 5'
    <<"1", "0", ":", "3", "0", " ", "L", "o", "n", "d", "o", "n", "\n", "T",
      "e", "r", "m", "i", "n", "a", "l", " ", "5">>,
    \* '10:30 CPTJNB'
    <<"1", "0", ":", "3", "0", " ", "C", "P", "T", "J", "N", "B">>,
    \* 'Flight number SA 053'
    <<"F", "l", "i", "g", "h", "t", " ", "n", "u", "m", "b", "e", "r", " ",
      "S", "A", " ", "0", "5", "3">>,
    \* '4:25 +1' / 'Johannesburg (JNB)'
    <<"4", ":", "2", "5", " ", "+", "1", "\n", "J", "o", "h", "a", "n", "n",
      "e", "s", "b", "u", "r", "g", " ", "(", "J", "N", "B", ")">>,
    \* 'Itinerary details' / '28 Sep 2025'
    <<"I", "t", "i", "n", "e", "r", "a", "r", "y", " ", "d", "e", "t", "a",
      "i", "l", "s", "\n", "2", "8", " ", "S", "e", "p", " ", "2", "0", "2",
      "5">> }

PipelineInit ==
  /\ NormIdle
  /\ DbIdle
  /\ ParseIdle
  /\ stage = "preprocess"
  \* the itineraries: up to MaxBlocks blocks, each on lines of its own
  /\ rawText \in {Join(q, <<"\n">>) : q \in UNION {[1..k -> Blocks] : k \in 0..MaxBlocks}}
  /\ cleanedText = <<>>
  /\ cleanedTwice = <<>>
  /\ waypoints = <<>>
  /\ flightNumbers = <<>>
  /\ durations = <<>>
  /\ baseDate = NoDate
  /\ legs = <<>>
  /\ segments = <<>>
  /\ warnings = <<>>

\* parseWithDeterministicPreprocessing, steps 2 to 7 (the terminals of step 3
\* are only logged)
Extract ==
  /\ stage = "cleaned"
  /\ waypoints' = extractWaypoints(cleanedText, buildCityIATAMap(cleanedText))
  /\ flightNumbers' = extractFlightNumbers(cleanedText)
  /\ durations' = extractDurations(cleanedText)
  /\ baseDate' = IF extractBaseDate(cleanedText) # NoDate
                 THEN extractBaseDate(cleanedText) ELSE Today
  /\ stage' = "stitch"
  /\ UNCHANGED <<parseVars, normVars, dbVars, rawText, cleanedText, cleanedTwice, legs,
                 segments, warnings>>

PipelineNext == Preprocess \/ Extract \/ Stitch \/ Convert

PipelineSpec == PipelineInit /\ [][PipelineNext]_vars

\* the extractors applied directly to text that has its line breaks: the
\* itineraries of PipelineInit as extractWaypoints(text, cityIataMap) and the
\* other exported extractors take them when they are called on the lines of
\* the document
DetectInit ==
  /\ NormIdle
  /\ DbIdle
  /\ ParseIdle
  /\ stage = "cleaned"
  /\ rawText \in {Join(q, <<"\n">>) : q \in UNION {[1..k -> Blocks] : k \in 0..MaxBlocks}}
  /\ cleanedText = rawText
  /\ cleanedTwice = <<>>
  /\ waypoints = <<>>
  /\ flightNumbers = <<>>
  /\ durations = <<>>
  /\ baseDate = NoDate
  /\ legs = <<>>
  /\ segments = <<>>
  /\ warnings = <<>>

DetectSpec == DetectInit /\ [][Extract]_vars


-----------------------------------------------------------------------------
(* Claims about the normalizer, the detector and the pipeline               *)

\* the waypoints have been detected
Extracted == stage \in {"stitch", "convert", "done"}

\* the text has been normalized
Preprocessed == stage \in {"cleaned", "renormalized", "stitch", "convert", "done"}

\* the airport code of the well-formed triple `HH:MM <City> (IATA)` that
\* starts at i: a time, white space, a city name of letters, spaces, dots,
\* apostrophes and hyphens, and the code in parentheses; NoText when no
\* triple starts at i
TripleIata(s, i) ==
  LET c == RunEnd(s, i + 5, Space) + 1
  IN  IF /\ Boundary(s, i)
         /\ At(s, i, Digit) /\ At(s, i + 1, Digit) /\ At(s, i + 2, {":"})
         /\ At(s, i + 3, Digit) /\ At(s, i + 4, Digit)
         /\ At(s, i + 5, Space)
         /\ c <= Len(s) /\ s[c] \in Letter
         /\ CityParen(s, c) > 0
      THEN Sub(s, CityParen(s, c) + 1, CityParen(s, c) + 3)
      ELSE NoText

\* the <<time, code>> of the triples of s from position i on, in text order
RECURSIVE TriplesFrom(_, _)
TriplesFrom(s, i) ==
  LET j == FirstIn({k \in i..Len(s) : TripleIata(s, k) # NoText})
  IN  IF j = 0 THEN <<>>
      ELSE << <<Sub(s, j, j + 4), TripleIata(s, j)>> >> \o TriplesFrom(s, j + 5)

\* every time of s opens a well-formed triple
OnlyTriples(s) ==
  \A i \in 1..Len(s) :
    (/\ At(s, i, Digit) /\ At(s, i + 1, Digit) /\ At(s, i + 2, {":"})
     /\ At(s, i + 3, Digit) /\ At(s, i + 4, Digit))
      => TripleIata(s, i) # NoText

\* C7: from normalized text with N well-formed `HH:MM <City> (IATA)` triples
\* the detector returns exactly N waypoints, one for each triple, in the
\* order of the triples in the text.
C7_WaypointParity ==
  (Extracted /\ OnlyTriples(cleanedText)) =>
    [k \in 1..Len(waypoints) |-> <<waypoints[k].time, waypoints[k].location>>]
      = TriplesFrom(cleanedText, 1)

\* the itinerary of the Accra to Johannesburg scenario
T_Scenario ==
  <<"2", "0", ":", "3", "0", " ", "A", "c", "c", "r", "a", "\n", "K", "o",
    "t", "o", "k", "a", " ", "I", "n", "t", "e", "r", "n", "a", "t", "i",
    "o", "n", "a", "l", " ", "(", "A", "C", "C", ")", "\n", "0", "4", ":",
    "2", "5", " ", "J", "o", "h", "a", "n", "n", "e", "s", "b", "u", "r",
    "g", "\n", "(", "+", "1", " ", "d", "a", "y", ")", "\n", "O", ".", "R",
    ".", " ", "T", "a", "m", "b", "o", " ", "I", "n", "t", "e", "r", "n",
    "a", "t", "i", "o", "n", "a", "l", " ", "(", "J", "N", "B", ")">>

\* C8: the scenario text, run through the pipeline on base date 2025-09-28,
\* gives the waypoints (20:30, ACC, same day) and (04:25, JNB, next day),
\* one leg ACC to JNB, and a segment that departs 28 Sep 2025 20:30 and
\* arrives 29 Sep 2025 04:25.
C8_AccraToJohannesburg ==
  (stage = "done" /\ rawText = T_Scenario /\ baseDate = Today) =>
    /\ Len(waypoints) = 2
    /\ waypoints[1].time = Txt.t2030 /\ waypoints[1].location = Txt.ACC
    /\ ~waypoints[1].isNextDay
    /\ waypoints[2].time = Txt.t0425 /\ waypoints[2].location = Txt.JNB
    /\ waypoints[2].isNextDay
    /\ Len(legs) = 1
    /\ legs[1].departure.location = Txt.ACC /\ legs[1].arrival.location = Txt.JNB
    /\ Len(segments) = 1
    /\ segments[1].dep.timeLocal = Txt.t2030
    /\ segments[1].dep.date = [day |-> 28, month |-> "Sep", year |-> 2025]
    /\ segments[1].arr.timeLocal = Txt.t0425
    /\ segments[1].arr.date = [day |-> 29, month |-> "Sep", year |-> 2025]

\* C9: the normalizer is idempotent: normalizing text that is already
\* normalized leaves it as it is, for every input, the empty one included.
C9_NormalizeIdempotent == stage = "renormalized" => cleanedTwice = cleanedText

\* six upper-case letters, no more, that start at i right after `HH:MM `
GluedAfterTime(s, i) ==
  /\ \A j \in i..(i + 5) : At(s, j, Upper)
  /\ Boundary(s, i + 6)
  /\ At(s, i - 1, {" "})
  /\ At(s, i - 6, Digit) /\ At(s, i - 5, Digit) /\ At(s, i - 4, {":"})
  /\ At(s, i - 3, Digit) /\ At(s, i - 2, Digit)

\* C10: six consecutive upper-case letters next to a time, as in
\* '08:20 CPTJNB', come out of the normalizer as two three-letter tokens with
\* one space between them ('CPT JNB'), and no longer glued.
C10_GluedCodesSplit ==
  Preprocessed =>
    \A i \in 1..Len(rawText) :
      GluedAfterTime(rawText, i) =>
        /\ Includes(cleanedText,
             Sub(rawText, i, i + 2) \o <<" ">> \o Sub(rawText, i + 3, i + 5))
        /\ ~Includes(cleanedText, Sub(rawText, i, i + 5))


-----------------------------------------------------------------------------
(* Date inference (utils/dateInference.ts)                                  *)
(* A Date is its time value in minutes since 1970-01-01T00:00Z (the inputs  *)
(* carry no seconds); an optional Date is <<>> (undefined, or an Invalid    *)
(* Date) or <<t>>. date.setDate(date.getDate() + 1) is taken in UTC.        *)

\* n.toString().padStart(width, '0')
RECURSIVE padStart(_, _)
padStart(n, width) ==
  LET digits == <<"0", "1", "2", "3", "4", "5", "6", "7", "8", "9">>
  IN  IF n < 10 /\ width <= 1 THEN <<digits[n + 1]>>
      ELSE padStart(n \div 10, width - 1) \o <<digits[(n % 10) + 1]>>

\* new Date(`${isoDate}T${time}:00.000Z`) for isoDate YYYY-MM-DD and time HH:MM
DateUTC(isoDate, time) ==
  LET Num(t, a, b) == DigitsValue(Sub(t, a, b))
      Shaped(t, shape) ==
        /\ Len(t) = Len(shape)
        /\ \A k \in 1..Len(shape) :
             IF shape[k] = "d" THEN t[k] \in Digit ELSE t[k] = shape[k]
      Minutes(y, m, d, hh, mm) ==
        LET yy == IF m <= 2 THEN y - 1 ELSE y
            era == yy \div 400
            yoe == yy - era * 400
            doy == (153 * ((m + 9) % 12) + 2) \div 5 + d - 1
            doe == yoe * 365 + yoe \div 4 - yoe \div 100 + doy
        IN  (era * 146097 + doe - 719468) * 1440 + hh * 60 + mm
      Checked(y, m, d, hh, mm) ==
        IF /\ m \in 1..12 /\ d >= 1 /\ hh <= 23 /\ mm <= 59
           /\ d <= DaysInMonth(y, IF m \in 1..12 THEN m ELSE 1)
        THEN <<Minutes(y, m, d, hh, mm)>>
        ELSE <<>>
  IN  IF /\ Shaped(isoDate, <<"d", "d", "d", "d", "-", "d", "d", "-", "d", "d">>)
         /\ Shaped(time, <<"d", "d", ":", "d", "d">>)
      THEN Checked(Num(isoDate, 1, 4), Num(isoDate, 6, 7), Num(isoDate, 9, 10),
                   Num(time, 1, 2), Num(time, 4, 5))
      ELSE <<>>

\* normalizeTimeString: HH:MM, or NoText for null
normalizeTimeString(timeStr) ==
  LET cleanTime == Trim(timeStr)
      AllDigits(t) == t # <<>> /\ \A k \in 1..Len(t) : t[k] \in Digit
      Colon(c, n) ==
        /\ c \in {2, 3} /\ n >= c + 2
        /\ AllDigits(Sub(cleanTime, 1, c - 1))
        /\ AllDigits(Sub(cleanTime, c + 1, c + 2))
      Military(h, m) ==
        IF h <= 23 /\ m <= 59
        THEN Sub(cleanTime, 1, 2) \o <<":">> \o Sub(cleanTime, 3, 4)
        ELSE NoText
      TwelveHour(h, period) ==
        IF period = <<"P", "M">> /\ h # 12 THEN h + 12
        ELSE IF period = <<"A", "M">> /\ h = 12 THEN 0
        ELSE h
      Clock(c, n) ==
        IF ~Colon(c, n) THEN NoText
        ELSE IF n = c + 2
        THEN (IF c = 2 THEN <<"0">> ELSE <<>>) \o cleanTime
        ELSE IF /\ n >= c + 4
                /\ ToUpperCase(Sub(cleanTime, n - 1, n)) \in {<<"A", "M">>, <<"P", "M">>}
                /\ \A k \in (c + 3)..(n - 2) : cleanTime[k] \in Space
        THEN padStart(TwelveHour(DigitsValue(Sub(cleanTime, 1, c - 1)),
                                 ToUpperCase(Sub(cleanTime, n - 1, n))), 2)
               \o Sub(cleanTime, c, c + 2)
        ELSE NoText
  IN  IF Len(cleanTime) = 4 /\ AllDigits(cleanTime)
      THEN Military(DigitsValue(Sub(cleanTime, 1, 2)),
                    DigitsValue(Sub(cleanTime, 3, 4)))
      ELSE Clock(IndexOf(cleanTime, <<":">>), Len(cleanTime))

\* normalizeDateString: YYYY-MM-DD, or NoText for null. The texts that none
\* of the three expressions matches go to `new Date(cleanDate)`; the model
\* only handles texts without a digit there, which no engine parses.
normalizeDateString(dateStr) ==
  LET cleanDate == Trim(dateStr)
      n == Len(cleanDate)
      Digits(a, b) == a <= b /\ \A k \in a..b : At(cleanDate, k, Digit)
      Pad2(t) == IF Len(t) = 1 THEN <<"0">> \o t ELSE t
      Iso ==
        /\ n = 10 /\ Digits(1, 4) /\ Digits(6, 7) /\ Digits(9, 10)
        /\ cleanDate[5] = "-" /\ cleanDate[8] = "-"
      Slash(a, b) ==
        IF /\ a \in {2, 3} /\ b - a \in {2, 3} /\ n = b + 4
           /\ Digits(1, a - 1) /\ Digits(a + 1, b - 1) /\ Digits(b + 1, n)
        THEN Sub(cleanDate, b + 1, n) \o <<"-">>
               \o Pad2(Sub(cleanDate, a + 1, b - 1)) \o <<"-">>
               \o Pad2(Sub(cleanDate, 1, a - 1))
        ELSE NoText
      Named(dEnd, mStart, yStart) ==
        IF /\ dEnd \in {1, 2} /\ mStart > dEnd + 1
           /\ \A k \in mStart..(mStart + 2) : At(cleanDate, k, WordChar)
           /\ yStart > mStart + 3 /\ n = yStart + 3 /\ Digits(yStart, n)
           /\ \E m \in 1..12 :
                monthMap[m] = ToLowerCase(Sub(cleanDate, mStart, mStart + 2))
        THEN Sub(cleanDate, yStart, n) \o <<"-">>
               \o padStart(CHOOSE m \in 1..12 :
                    monthMap[m] = ToLowerCase(Sub(cleanDate, mStart, mStart + 2)), 2)
               \o <<"-">> \o Pad2(Sub(cleanDate, 1, dEnd))
        ELSE NoText
      NamedAt(dEnd) ==
        Named(dEnd, RunEnd(cleanDate, dEnd + 1, Space) + 1,
              RunEnd(cleanDate, RunEnd(cleanDate, dEnd + 1, Space) + 4, Space) + 1)
      SlashAt(a) ==
        Slash(a, IF a = 0 THEN 0
                 ELSE a + IndexOf(Sub(cleanDate, a + 1, n), <<"/">>))
  IN  IF Iso THEN cleanDate
      ELSE IF Includes(cleanDate, <<"/">>)
      THEN SlashAt(IndexOf(cleanDate, <<"/">>))
      ELSE NamedAt(RunEnd(cleanDate, 1, Digit))

\* parseDateTime: the parsed Date and the confidence of one side of a segment
parseDateTime(dateStr, timeStr) ==
  LET Result(parsedDate, confidence) ==
        [parsedDateTime |-> parsedDate,
         isInferred |-> FALSE,
         confidence |-> IF parsedDate # <<>> /\ confidence = "low"
                        THEN "medium" ELSE confidence]
      Both(normalizedDate, normalizedTime) ==
        IF Truthy(normalizedDate) /\ Truthy(normalizedTime)
        THEN Result(DateUTC(normalizedDate, normalizedTime), "high")
        ELSE Result(<<>>, "low")
      DateOnly(normalizedDate) ==
        IF Truthy(normalizedDate)
        THEN Result(DateUTC(normalizedDate, <<"0", "0", ":", "0", "0">>), "medium")
        ELSE Result(<<>>, "low")
  IN  IF Truthy(dateStr) /\ Truthy(timeStr)
      THEN Both(normalizeDateString(dateStr), normalizeTimeString(timeStr))
      ELSE IF Truthy(dateStr) THEN DateOnly(normalizeDateString(dateStr))
      ELSE Result(<<>>, "low")

\* inferOnlyMissingDates with the overnight test arrHour < depHour
RECURSIVE inferOnlyMissingDates_AnyEarlier(_, _, _)
inferOnlyMissingDates_AnyEarlier(result, i, now) ==
  LET segment == result[i]
      Hour(timeStr) == DigitsValue(Sub(timeStr, 1, 2))
      \* date.setUTCHours(hours, minutes, 0, 0)
      setUTCHours(t, timeStr) ==
        t - (t % 1440) + 60 * Hour(timeStr) + DigitsValue(Sub(timeStr, 4, 5))
      Inferred(side, t, confidence) ==
        [side EXCEPT !.parsedDateTime = <<t>>, !.isInferred = TRUE,
                     !.confidence = confidence]
      Throws ==
        /\ ~Truthy(segment.arr.date) /\ segment.arr.parsedDateTime = <<>>
        /\ segment.dep.parsedDateTime # <<>> /\ Truthy(segment.arr.timeLocal)
        /\ ~Truthy(segment.dep.timeLocal)
      Arrival(arrTimeStr, depTimeStr) ==
        IF /\ ~Truthy(segment.arr.date) /\ segment.arr.parsedDateTime = <<>>
           /\ segment.dep.parsedDateTime # <<>> /\ Truthy(segment.arr.timeLocal)
           /\ Truthy(arrTimeStr) /\ Truthy(depTimeStr)
        THEN Inferred(segment.arr,
               setUTCHours(segment.dep.parsedDateTime[1], arrTimeStr)
                 + (IF Hour(arrTimeStr) < Hour(depTimeStr) THEN 1440 ELSE 0),
               "medium")
        ELSE segment.arr
      FromPrevious(prevArr, depTimeStr) ==
        Inferred(segment.dep,
          setUTCHours(IF Hour(depTimeStr) < ((prevArr \div 60) % 24) - 2
                      THEN prevArr + 1440 ELSE prevArr, depTimeStr),
          "medium")
      Departure(depTimeStr) ==
        IF /\ ~Truthy(segment.dep.date) /\ segment.dep.parsedDateTime = <<>>
           /\ Truthy(segment.dep.timeLocal) /\ Truthy(depTimeStr)
        THEN IF i = 1
             THEN Inferred(segment.dep, setUTCHours(now, depTimeStr), "low")
             ELSE IF result[i - 1].arr.parsedDateTime # <<>>
             THEN FromPrevious(result[i - 1].arr.parsedDateTime[1], depTimeStr)
             ELSE segment.dep
        ELSE segment.dep
      Step(depTimeStr) ==
        [result EXCEPT ![i] =
           [segment EXCEPT
              !.arr = Arrival(normalizeTimeString(segment.arr.timeLocal), depTimeStr),
              !.dep = Departure(depTimeStr)]]
  IN  IF i > Len(result) THEN [threw |-> FALSE, segments |-> result]
      ELSE IF Throws THEN [threw |-> TRUE, segments |-> <<>>]
      ELSE inferOnlyMissingDates_AnyEarlier(Step(normalizeTimeString(segment.dep.timeLocal)),
                                 i + 1, now)

\* inferOnlyMissingDates with the next-day test hours < prevArrHour
RECURSIVE inferOnlyMissingDates_NoBuffer(_, _, _)
inferOnlyMissingDates_NoBuffer(result, i, now) ==
  LET segment == result[i]
      Hour(timeStr) == DigitsValue(Sub(timeStr, 1, 2))
      \* date.setUTCHours(hours, minutes, 0, 0)
      setUTCHours(t, timeStr) ==
        t - (t % 1440) + 60 * Hour(timeStr) + DigitsValue(Sub(timeStr, 4, 5))
      Inferred(side, t, confidence) ==
        [side EXCEPT !.parsedDateTime = <<t>>, !.isInferred = TRUE,
                     !.confidence = confidence]
      Throws ==
        /\ ~Truthy(segment.arr.date) /\ segment.arr.parsedDateTime = <<>>
        /\ segment.dep.parsedDateTime # <<>> /\ Truthy(segment.arr.timeLocal)
        /\ ~Truthy(segment.dep.timeLocal)
      Arrival(arrTimeStr, depTimeStr) ==
        IF /\ ~Truthy(segment.arr.date) /\ segment.arr.parsedDateTime = <<>>
           /\ segment.dep.parsedDateTime # <<>> /\ Truthy(segment.arr.timeLocal)
           /\ Truthy(arrTimeStr) /\ Truthy(depTimeStr)
        THEN Inferred(segment.arr,
               setUTCHours(segment.dep.parsedDateTime[1], arrTimeStr)
                 + (IF Hour(arrTimeStr) < Hour(depTimeStr) - 12 THEN 1440 ELSE 0),
               "medium")
        ELSE segment.arr
      FromPrevious(prevArr, depTimeStr) ==
        Inferred(segment.dep,
          setUTCHours(IF Hour(depTimeStr) < ((prevArr \div 60) % 24)
                      THEN prevArr + 1440 ELSE prevArr, depTimeStr),
          "medium")
      Departure(depTimeStr) ==
        IF /\ ~Truthy(segment.dep.date) /\ segment.dep.parsedDateTime = <<>>
           /\ Truthy(segment.dep.timeLocal) /\ Truthy(depTimeStr)
        THEN IF i = 1
             THEN Inferred(segment.dep, setUTCHours(now, depTimeStr), "low")
             ELSE IF result[i - 1].arr.parsedDateTime # <<>>
             THEN FromPrevious(result[i - 1].arr.parsedDateTime[1], depTimeStr)
             ELSE segment.dep
        ELSE segment.dep
      Step(depTimeStr) ==
        [result EXCEPT ![i] =
           [segment EXCEPT
              !.arr = Arrival(normalizeTimeString(segment.arr.timeLocal), depTimeStr),
              !.dep = Departure(depTimeStr)]]
  IN  IF i > Len(result) THEN [threw |-> FALSE, segments |-> result]
      ELSE IF Throws THEN [threw |-> TRUE, segments |-> <<>>]
      ELSE inferOnlyMissingDates_NoBuffer(Step(normalizeTimeString(segment.dep.timeLocal)),
                                 i + 1, now)

\* inferOnlyMissingDates from segment i on: the segments with the Dates it
\* infers, and threw when normalizeTimeString is handed an undefined
\* departure time (timeStr.trim() of undefined is a TypeError)
RECURSIVE inferOnlyMissingDates(_, _, _)
inferOnlyMissingDates(result, i, now) ==
  LET segment == result[i]
      Hour(timeStr) == DigitsValue(Sub(timeStr, 1, 2))
      \* date.setUTCHours(hours, minutes, 0, 0)
      setUTCHours(t, timeStr) ==
        t - (t % 1440) + 60 * Hour(timeStr) + DigitsValue(Sub(timeStr, 4, 5))
      Inferred(side, t, confidence) ==
        [side EXCEPT !.parsedDateTime = <<t>>, !.isInferred = TRUE,
                     !.confidence = confidence]
      Throws ==
        /\ ~Truthy(segment.arr.date) /\ segment.arr.parsedDateTime = <<>>
        /\ segment.dep.parsedDateTime # <<>> /\ Truthy(segment.arr.timeLocal)
        /\ ~Truthy(segment.dep.timeLocal)
      Arrival(arrTimeStr, depTimeStr) ==
        IF /\ ~Truthy(segment.arr.date) /\ segment.arr.parsedDateTime = <<>>
           /\ segment.dep.parsedDateTime # <<>> /\ Truthy(segment.arr.timeLocal)
           /\ Truthy(arrTimeStr) /\ Truthy(depTimeStr)
        THEN Inferred(segment.arr,
               setUTCHours(segment.dep.parsedDateTime[1], arrTimeStr)
                 + (IF Hour(arrTimeStr) < Hour(depTimeStr) - 12 THEN 1440 ELSE 0),
               "medium")
        ELSE segment.arr
      FromPrevious(prevArr, depTimeStr) ==
        Inferred(segment.dep,
          setUTCHours(IF Hour(depTimeStr) < ((prevArr \div 60) % 24) - 2
                      THEN prevArr + 1440 ELSE prevArr, depTimeStr),
          "medium")
      Departure(depTimeStr) ==
        IF /\ ~Truthy(segment.dep.date) /\ segment.dep.parsedDateTime = <<>>
           /\ Truthy(segment.dep.timeLocal) /\ Truthy(depTimeStr)
        THEN IF i = 1
             THEN Inferred(segment.dep, setUTCHours(now, depTimeStr), "low")
             ELSE IF result[i - 1].arr.parsedDateTime # <<>>
             THEN FromPrevious(result[i - 1].arr.parsedDateTime[1], depTimeStr)
             ELSE segment.dep
        ELSE segment.dep
      Step(depTimeStr) ==
        [result EXCEPT ![i] =
           [segment EXCEPT
              !.arr = Arrival(normalizeTimeString(segment.arr.timeLocal), depTimeStr),
              !.dep = Departure(depTimeStr)]]
  IN  IF i > Len(result) THEN [threw |-> FALSE, segments |-> result]
      ELSE IF Throws THEN [threw |-> TRUE, segments |-> <<>>]
      ELSE inferOnlyMissingDates(Step(normalizeTimeString(segment.dep.timeLocal)),
                                 i + 1, now)

\* inferSegmentDates: the segments with their dates and times as strings
\* again; now is the value of new Date()
inferSegmentDates(segs, now) ==
  LET \* formatDate: `${day} ${month} ${year}` in UTC, the day padded to two
      \* digits; months are 'Jan' .. 'Dec', the names of monthMap capitalised
      formatDateUTC(t) ==
        LET z == t \div 1440 + 719468
            era == z \div 146097
            doe == z - era * 146097
            yoe == (doe - doe \div 1460 + doe \div 36524 - doe \div 146096) \div 365
            doy == doe - (365 * yoe + yoe \div 4 - yoe \div 100)
            mp == (5 * doy + 2) \div 153
            Rendered(d, m, y) ==
              padStart(d, 2) \o <<" ", UpperChar(monthMap[m][1])>>
                \o Sub(monthMap[m], 2, 3) \o <<" ">> \o padStart(y, 4)
            Civil(m, y) == Rendered(doy - (153 * mp + 2) \div 5 + 1, m,
                                    IF m <= 2 THEN y + 1 ELSE y)
        IN  Civil(IF mp < 10 THEN mp + 3 ELSE mp - 9, yoe + era * 400)
      \* formatTime: `${hours}:${minutes}` in UTC, both padded to two digits
      formatTime(t) ==
        padStart((t \div 60) % 24, 2) \o <<":">> \o padStart(t % 60, 2)
      Parsed(side, info) ==
        [iata |-> side.iata, city |-> side.city, date |-> side.date,
         timeLocal |-> side.timeLocal, parsedDateTime |-> info.parsedDateTime,
         isInferred |-> info.isInferred, confidence |-> info.confidence]
      FirstPass(side) == Parsed(side, parseDateTime(side.date, side.timeLocal))
      Kept(original, side) == Truthy(original) /\ side.confidence = "high"
      Clean(side) ==
        [iata |-> side.iata, city |-> side.city,
         date |-> IF Kept(side.date, side) \/ side.parsedDateTime = <<>>
                  THEN side.date ELSE formatDateUTC(side.parsedDateTime[1]),
         timeLocal |-> IF Kept(side.timeLocal, side) \/ side.parsedDateTime = <<>>
                       THEN side.timeLocal ELSE formatTime(side.parsedDateTime[1])]
      ThirdPass(processed) ==
        [threw |-> processed.threw,
         segments |->
           [k \in 1..Len(processed.segments) |->
              [marketingFlightNo |-> processed.segments[k].marketingFlightNo,
               dep |-> Clean(processed.segments[k].dep),
               arr |-> Clean(processed.segments[k].arr)]]]
  IN  IF segs = <<>> THEN [threw |-> FALSE, segments |-> segs]
      ELSE ThirdPass(inferOnlyMissingDates(
             [k \in 1..Len(segs) |->
                [marketingFlightNo |-> segs[k].marketingFlightNo,
                 dep |-> FirstPass(segs[k].dep),
                 arr |-> FirstPass(segs[k].arr)]], 1, now))

\* validateSegmentDates: the errors it returns and the warnings it only logs,
\* each as <<segment index, kind>> in the order of the pushes
RECURSIVE validateSegmentDates(_, _)
validateSegmentDates(segs, i) ==
  LET segment == segs[i]
      Complete(side) == Truthy(side.date) /\ Truthy(side.timeLocal)
      When(side) == parseDateTime(side.date, side.timeLocal).parsedDateTime
      Report(errors, logged) == [errors |-> errors, warnings |-> logged]
      Within(dep, arr) ==
        IF dep # <<>> /\ arr # <<>>
        THEN Report(IF dep[1] >= arr[1] THEN << <<i, "not before arrival">> >>
                    ELSE <<>>, <<>>)
        ELSE Report(<<>>, << <<i, "could not parse">> >>)
      Own ==
        IF Complete(segment.dep) /\ Complete(segment.arr)
        THEN Within(When(segment.dep), When(segment.arr))
        ELSE Report(<<>>, << <<i, "missing">> >>)
      Layover(prevArr, currDep) ==
        IF prevArr # <<>> /\ currDep # <<>>
        THEN IF currDep[1] - prevArr[1] < 0
             THEN Report(<< <<i, "before previous arrival">> >>, <<>>)
             ELSE IF currDep[1] - prevArr[1] < 30
             THEN Report(<<>>, << <<i, "short layover">> >>)
             ELSE Report(<<>>, <<>>)
        ELSE Report(<<>>, <<>>)
      Connection ==
        IF i > 1 /\ Complete(segs[IF i > 1 THEN i - 1 ELSE 1].arr)
                 /\ Complete(segment.dep)
        THEN Layover(When(segs[i - 1].arr), When(segment.dep))
        ELSE Report(<<>>, <<>>)
      Merge(own, connection, rest) ==
        Report(own.errors \o connection.errors \o rest.errors,
               own.warnings \o connection.warnings \o rest.warnings)
  IN  IF i > Len(segs) THEN Report(<<>>, <<>>)
      ELSE Merge(Own, Connection, validateSegmentDates(segs, i + 1))

-----------------------------------------------------------------------------
(* Normalizer / mapper (normalizeTicket.ts)                                 *)

\* new Date().toISOString().split('T')[0]
TodayISO ==
  padStart(Today.y, 4) \o <<"-">> \o padStart(Today.m, 2) \o <<"-">>
    \o padStart(Today.d, 2)

\* formatDateTime: the ISO timestamp of a side of a segment. parseDate is
\* normalizeDateString on the texts that its first three expressions decide,
\* which are all the date texts of the model.
formatDateTime(date, time) ==
  LET now == TodayISO \o <<"T", "1", "2", ":", "0", "0", ":", "0", "0", ".",
                           "0", "0", "0", "Z">>
      parseDate(dateStr) ==
        IF Truthy(dateStr) THEN normalizeDateString(dateStr) ELSE NoText
      AllDigits(t) == t # <<>> /\ \A k \in 1..Len(t) : t[k] \in Digit
      HoursOnly(t) ==
        IF Len(t) \in {1, 2} /\ AllDigits(t) /\ DigitsValue(t) <= 23
        THEN padStart(DigitsValue(t), 2) \o <<"0", "0">>
        ELSE NoText
      Military(cleanTime, normalized) ==
        IF Len(cleanTime) = 4 /\ AllDigits(cleanTime) /\ Truthy(normalized)
        THEN cleanTime
        ELSE IF Len(cleanTime) <= 5 THEN normalized
        ELSE Strip(normalized, {":"})
      parseTime(timeStr) ==
        IF ~Truthy(timeStr) THEN NoText
        ELSE IF Includes(Trim(timeStr), <<":">>) \/ Len(Trim(timeStr)) = 4
        THEN Military(Trim(timeStr), normalizeTimeString(timeStr))
        ELSE HoursOnly(Trim(timeStr))
      Formatted(timeStr) ==
        IF Len(timeStr) = 4 /\ AllDigits(timeStr)
        THEN Sub(timeStr, 1, 2) \o <<":">> \o Sub(timeStr, 3, 4)
        ELSE timeStr
      Stamp(dateStr, clock) == dateStr \o <<"T">> \o clock \o Txt.isoTail
      Resolve(dateStr, timeStr) ==
        IF Truthy(date) /\ Truthy(time) /\ Truthy(dateStr) /\ Truthy(timeStr)
        THEN Stamp(dateStr, Formatted(timeStr))
        ELSE IF Truthy(date) /\ Truthy(dateStr)
        THEN Stamp(dateStr, <<"0", "0", ":", "0", "0">>)
        ELSE IF Truthy(time) /\ Truthy(timeStr)
        THEN Stamp(TodayISO, Formatted(timeStr))
        ELSE now
  IN  Resolve(parseDate(date), parseTime(time))

\* normalizeSegments with the carrier default taken before the prefix
airlineCode_CarrierFirst(marketingFlightNo, defaultCarrier) ==
  LET FlightMatch(e) ==
        IF e \in {2, 3} /\ e < Len(marketingFlightNo)
           /\ \A k \in (e + 1)..Len(marketingFlightNo) :
                 marketingFlightNo[k] \in Digit
        THEN e
        ELSE 0
      Code(e) ==
        IF Truthy(defaultCarrier) THEN defaultCarrier
        ELSE IF e > 0 THEN Sub(marketingFlightNo, 1, e)
        ELSE <<"X", "X">>
  IN  Code(FlightMatch(RunEnd(marketingFlightNo, 1, Upper)))

\* normalizeSegments: flightMatch ? flightMatch[1] : defaultCarrier || 'XX'
airlineCode(marketingFlightNo, defaultCarrier) ==
  LET \* /^([A-Z]{2,3})(\d+)$/: the length of the prefix, 0 when no match
      FlightMatch(e) ==
        IF e \in {2, 3} /\ e < Len(marketingFlightNo)
           /\ \A k \in (e + 1)..Len(marketingFlightNo) :
                 marketingFlightNo[k] \in Digit
        THEN e
        ELSE 0
      Code(e) ==
        IF e > 0 THEN Sub(marketingFlightNo, 1, e)
        ELSE IF Truthy(defaultCarrier) THEN defaultCarrier
        ELSE <<"X", "X">>
  IN  Code(FlightMatch(RunEnd(marketingFlightNo, 1, Upper)))

\* normalizeSegments: the itinerary segments of the inferred segments
normalizeSegments(segs, defaultCarrier) ==
  LET Or(a, b) == IF Truthy(a) THEN a ELSE b
      airportMap ==
        << <<<<"l", "o", "n", "d", "o", "n">>,
             <<"L", "H", "R">>>>,
           <<<<"h", "e", "a", "t", "h", "r", "o", "w">>,
             <<"L", "H", "R">>>>,
           <<<<"g", "a", "t", "w", "i", "c", "k">>,
             <<"L", "G", "W">>>>,
           <<<<"p", "a", "r", "i", "s">>,
             <<"C", "D", "G">>>>,
           <<<<"a", "m", "s", "t", "e", "r", "d", "a", "m">>,
             <<"A", "M", "S">>>>,
           <<<<"f", "r", "a", "n", "k", "f", "u", "r", "t">>,
             <<"F", "R", "A">>>>,
           <<<<"d", "u", "b", "a", "i">>,
             <<"D", "X", "B">>>>,
           <<<<"n", "e", "w", " ", "y", "o", "r", "k">>,
             <<"J", "F", "K">>>>,
           <<<<"l", "o", "s", " ", "a", "n", "g", "e", "l", "e", "s">>,
             <<"L", "A", "X">>>>,
           <<<<"a", "c", "c", "r", "a">>,
             <<"A", "C", "C">>>>,
           <<<<"l", "a", "g", "o", "s">>,
             <<"L", "O", "S">>>>,
           <<<<"a", "b", "u", "j", "a">>,
             <<"A", "B", "V">>>> >>
      extractCodeFromCity(city) ==
        IF ~Truthy(city) THEN NoText
        ELSE IF \E k \in 1..Len(airportMap) :
                  Includes(ToLowerCase(city), airportMap[k][1])
        THEN airportMap[FirstIn({k \in 1..Len(airportMap) :
               Includes(ToLowerCase(city), airportMap[k][1])})][2]
        ELSE NoText
      End(side) ==
        [airport |-> Or(side.city, Or(side.iata, Txt.Unknown)),
         code |-> Or(side.iata, Or(extractCodeFromCity(side.city), <<"X", "X", "X">>)),
         scheduledTime |-> formatDateTime(side.date, side.timeLocal)]
  IN  [k \in 1..Len(segs) |->
         [airline |-> airlineCode(segs[k].marketingFlightNo, defaultCarrier),
          flightNumber |-> segs[k].marketingFlightNo,
          departure |-> End(segs[k].dep),
          arrival |-> End(segs[k].arr),
          status |-> "Confirmed"]]

\* the tickets handed to the normalizer: an absent date or timeLocal (NoText)
\* is a field that is undefined. Two connecting segments with every
\* combination of dates and times, and one segment with every combination
\* of carrier, flight number, airport naming and date and time notation.
NormInit ==
  /\ ParseIdle
  /\ TextIdle
  /\ DbIdle
  /\ inferredSegments = <<>>
  /\ validation = [isValid |-> TRUE, errors |-> <<>>]
  /\ validationWarnings = <<>>
  /\ itinerary = [threw |-> FALSE, segments |-> <<>>, createdAt |-> NoText]
  /\ LET Side(iata, city, when) ==
           [iata |-> iata, city |-> city, date |-> when[1], timeLocal |-> when[2]]
         Seg(fn, dep, arr) ==
           [marketingFlightNo |-> fn, dep |-> dep, arr |-> arr]
         Connecting ==
           {NoText, Txt.d04Oct2024, Txt.iso07Oct}
             \X {NoText, Txt.t2210, Txt.t0615, Txt.t0500}
         Notations ==
           {NoText, Txt.d04Oct2024, Txt.slash04Oct, Txt.iso04Oct}
             \X {NoText, Txt.t0615, Txt.m0615, Txt.pm615}
     IN  \/ \E d1 \in Connecting, a1 \in Connecting,
               d2 \in Connecting, a2 \in Connecting :
              parsedTicket = Ticket(Txt.SA, Txt.Locator, <<>>,
                <<Seg(Txt.BA123, Side(Txt.LHR, Txt.London, d1),
                                 Side(Txt.ACC, Txt.Accra, a1)),
                  Seg(Txt.SA053, Side(Txt.ACC, Txt.Accra, d2),
                                 Side(Txt.JNB, NoText, a2))>>)
         \/ \E carrier \in {Txt.SA, NoText}, fn \in {Txt.BA123, Txt.n123},
               place \in {<<Txt.LHR, Txt.London>>, <<NoText, Txt.London>>,
                          <<NoText, NoText>>},
               d1 \in Notations, a1 \in Notations :
              parsedTicket = Ticket(carrier, Txt.Locator, <<>>,
                <<Seg(fn, Side(place[1], place[2], d1),
                          Side(Txt.ACC, Txt.Accra, a1))>>)

\* normalizeTicketToItinerary: infer the dates, validate them, map the
\* segments; a TypeError of the inference leaves the handler by exception
NormalizeTicketToItinerary ==
  /\ parsedTicket # NoTicket
  /\ itinerary.createdAt = NoText /\ ~itinerary.threw
  /\ LET Returned(inferred, report) ==
           /\ inferredSegments' = inferred
           /\ validation' = [isValid |-> report.errors = <<>>,
                             errors |-> report.errors]
           /\ validationWarnings' = report.warnings
           /\ itinerary' =
                [threw |-> FALSE,
                 segments |-> normalizeSegments(inferred, parsedTicket.carrier),
                 createdAt |-> TodayISO]
         Outcome(inference) ==
           IF inference.threw
           THEN /\ itinerary' = [itinerary EXCEPT !.threw = TRUE]
                /\ UNCHANGED <<inferredSegments, validation, validationWarnings>>
           ELSE Returned(inference.segments,
                         validateSegmentDates(inference.segments, 1))
     IN  Outcome(inferSegmentDates(parsedTicket.segments,
           DateUTC(TodayISO, <<"1", "2", ":", "0", "0">>)[1]))
  /\ UNCHANGED <<parseVars, textVars, dbVars, parsedTicket>>

NormNext == NormalizeTicketToItinerary

NormSpec == NormInit /\ [][NormNext]_vars


-----------------------------------------------------------------------------
(* Claims about date inference and the normalizer                           *)

\* normalizeTicketToItinerary has returned
Normalized == itinerary.createdAt # NoText

\* the two sides of a segment
Sides == {"dep", "arr"}

\* C11: a side whose date and time are both given comes out of the date
\* inference with that date and that time unchanged, and no date that was
\* given is modified: only absent dates are filled.
C11_GivenDatesUnchanged ==
  Normalized =>
    \A k \in 1..Len(parsedTicket.segments) : \A side \in Sides :
      LET given == parsedTicket.segments[k][side]
          result == inferredSegments[k][side]
      IN  /\ Truthy(given.date) => result.date = given.date
          /\ (Truthy(given.date) /\ Truthy(given.timeLocal)) =>
               result.timeLocal = given.timeLocal

\* C12: after the date inference every segment that has a departure time
\* and an arrival time has a departure date and an arrival date, a first
\* segment without any date and a connecting segment without any date
\* included.
C12_TimedSegmentsDated ==
  Normalized =>
    \A k \in 1..Len(parsedTicket.segments) :
      (/\ Truthy(parsedTicket.segments[k].dep.timeLocal)
       /\ Truthy(parsedTicket.segments[k].arr.timeLocal)) =>
        /\ Truthy(inferredSegments[k].dep.date)
        /\ Truthy(inferredSegments[k].arr.date)

\* the Date of a side of an inferred segment, <<>> when it has none
When(side) == parseDateTime(side.date, side.timeLocal).parsedDateTime

\* C13: a connecting departure whose date is inferred from the previous
\* arrival never precedes that arrival: a departure clock time earlier than
\* the arrival's is placed on the next day, so that a previous arrival at
\* 06:15 on 04 Oct 2024 and a departure at 05:00 give 05 Oct 2024.
C13_InferredDepartureAfterArrival ==
  Normalized =>
    \A k \in 2..Len(parsedTicket.segments) :
      LET given == parsedTicket.segments[k].dep
          prevArr == inferredSegments[k - 1].arr
          dep == inferredSegments[k].dep
      IN  (/\ ~Truthy(given.date) /\ Truthy(given.timeLocal)
           /\ Truthy(dep.date) /\ When(prevArr) # <<>>) =>
            /\ When(dep) # <<>>
            /\ When(dep)[1] >= When(prevArr)[1]
            /\ (/\ prevArr.date = Txt.d04Oct2024 /\ prevArr.timeLocal = Txt.t0615
                /\ given.timeLocal = Txt.t0500) => dep.date = Txt.d05Oct2024

\* C14: after the inference, every pair of consecutive segments whose
\* earlier arrival does not strictly precede the later departure, or whose
\* layover is shorter than 30 minutes or longer than 48 hours, has a warning
\* in what is returned to the caller, and the segments are still returned.
C14_OffendingPairsReported ==
  Normalized =>
    /\ Len(itinerary.segments) = Len(parsedTicket.segments)
    /\ \A k \in 2..Len(inferredSegments) :
         LET prevArr == When(inferredSegments[k - 1].arr)
             dep == When(inferredSegments[k].dep)
         IN  (/\ prevArr # <<>> /\ dep # <<>>
              /\ \/ dep[1] - prevArr[1] < 30
                 \/ dep[1] - prevArr[1] > 48 * 60) =>
               \E e \in 1..Len(validation.errors) : validation.errors[e][1] = k

\* C15: a passenger whose name is a blacklisted phrase ('BAGGAGE ALLOWANCE'),
\* added to the ticket the BA parser scores, does not increase the passenger
\* quality part of the score.
C15_BlacklistedPassengerNoGain ==
  regexTicket # NoTicket =>
    LET padded == [regexTicket EXCEPT !.passengers = Append(@, Txt.Baggage)]
    IN  PassengerQuality(padded) * Max(1, Len(regexTicket.passengers))
          <= PassengerQuality(regexTicket) * Len(padded.passengers)

\* C16: the parse does not wait for the usage recorder: once the extraction
\* has resolved the parse returns, whether or not the recorder ever answers
\* (recording is fire-and-forget), and a failure of the recorder neither
\* fails the parse nor changes the ticket.
C16_ReturnsWithoutRecorder == (pc = "extractDone") ~> (pc = "done")

\* C17: every ticket a parse returns carries in raw the text and the html
\* of the input as they were supplied, on the deterministic, the carrier
\* specific, the generative, the basic and the enrichment path alike.
C17_RawIsInput ==
  returned # NoTicket => returned.raw = [text |-> doc.text, html |-> doc.html]

\* C17 witness: a deterministic ticket, built with raw: { text } only, is
\* returned for an input that has html
C17_DeterministicWithHtml ==
  /\ pc = "done" /\ source = "deterministic"
  /\ Truthy(doc.html) /\ ~Truthy(detTicket.raw.html)
  /\ returned.raw.html = doc.html

\* C18: when nothing can be extracted from the input and no fallback path is
\* left (the service is not configured or its call failed, so parseBasic is
\* the last resort), the parse does not hand back, as a successful result, a
\* ticket with no passengers and no segments or with a carrier that is not in
\* the input.
C18_NoPlaceholderTicket ==
  (pc = "done" /\ source = "basic") =>
     /\ Len(returned.passengers) > 0 \/ Len(returned.segments) > 0
     /\ returned.carrier # Txt.UNKNOWN

\* the Date an ISO string 'YYYY-MM-DDTHH:MM:00.000Z' reads back as
ReadBack(iso) == DateUTC(Sub(iso, 1, 10), Sub(iso, 12, 16))

\* C19: every segment handed to the mapper comes out with its flight number,
\* with its own departure and arrival IATA codes, and with scheduled times
\* that read back as its own date and local time: no code and no timestamp
\* is substituted.
C19_SegmentPreserved ==
  Normalized =>
    \A k \in 1..Len(inferredSegments) :
      LET seg == inferredSegments[k]
          out == itinerary.segments[k]
      IN  /\ out.flightNumber = seg.marketingFlightNo
          /\ out.departure.code = seg.dep.iata
          /\ out.arrival.code = seg.arr.iata
          /\ When(seg.dep) # <<>>
          /\ When(seg.arr) # <<>>
          /\ ReadBack(out.departure.scheduledTime) = When(seg.dep)
          /\ ReadBack(out.arrival.scheduledTime) = When(seg.arr)

\* C20 as stated: the airline code of a normalized segment is the ticket's
\* carrier when the ticket has one, and the prefix of the flight number only
\* when it has none.
C20_CarrierDefaultFirst ==
  Normalized =>
    \A k \in 1..Len(itinerary.segments) :
      Truthy(parsedTicket.carrier) =>
        itinerary.segments[k].airline = parsedTicket.carrier

\* C20: the airline code of a normalized segment is the letter prefix of its
\* flight number when the flight number is two or three capital letters
\* followed by digits; otherwise it is the ticket's carrier, and 'XX' when
\* the ticket has none.
C20_PrefixFirst ==
  Normalized =>
    \A k \in 1..Len(itinerary.segments) :
      LET fn == parsedTicket.segments[k].marketingFlightNo
          airline == itinerary.segments[k].airline
          Prefixed == \E e \in 2..3 :
                        /\ e < Len(fn)
                        /\ \A j \in 1..e : fn[j] \in Upper
                        /\ \A j \in (e + 1)..Len(fn) : fn[j] \in Digit
      IN  IF Prefixed
          THEN /\ Len(airline) \in 2..3
               /\ airline = Sub(fn, 1, Len(airline))
               /\ \A j \in (Len(airline) + 1)..Len(fn) : fn[j] \in Digit
          ELSE airline = IF Truthy(parsedTicket.carrier)
                         THEN parsedTicket.carrier
                         ELSE <<"X", "X">>

\* C20 witness: a ticket of carrier SA whose segment BA123 is normalized to
\* airline BA
C20_PrefixOverCarrier ==
  /\ Normalized
  /\ parsedTicket.carrier = Txt.SA
  /\ \E k \in 1..Len(itinerary.segments) :
       /\ itinerary.segments[k].flightNumber = Txt.BA123
       /\ itinerary.segments[k].airline = Txt.BA

-----------------------------------------------------------------------------
(* Convex functions: convex/llmUsage.ts and convex/itineraries.ts           *)
(* A mutation runs as one transaction, so each is one step. A number that   *)
(* a division produces is kept as the fraction [num, den] in lowest terms;  *)
(* a cost is a whole number of cost units.                                   *)

MaxCalls == 3
MaxItineraries == 4

\* updateRollingStats without the lookup of the existing row
updateRollingStats_AlwaysInsert(stats, model, tokensIn, tokensOut, cost) ==
  Append(stats,
    [model |-> model,
     avgTokensIn |-> [num |-> tokensIn, den |-> 1],
     avgTokensOut |-> [num |-> tokensOut, den |-> 1],
     avgCost |-> [num |-> cost, den |-> 1],
     totalCalls |-> 1,
     totalCost |-> cost])

\* llmUsage.ts updateRollingStats: the rows of llmStats after the call
\* (lastUpdated is left out)
updateRollingStats(stats, model, tokensIn, tokensOut, cost) ==
  LET RECURSIVE GCD(_, _)
      GCD(a, b) == IF b = 0 THEN a ELSE GCD(b, a % b)
      \* n / d
      Div(n, d) == [num |-> n \div GCD(n, d), den |-> d \div GCD(n, d)]
      \* (avg * calls + x) / totalCalls
      Rolling(avg, calls, x, totalCalls) ==
        Div(avg.num * calls + x * avg.den, avg.den * totalCalls)
      byModel == {k \in 1..Len(stats) : stats[k].model = model}
      Patch(existingStats, totalCalls, totalCost) ==
        [existingStats EXCEPT
           !.avgTokensIn = Rolling(@, existingStats.totalCalls, tokensIn, totalCalls),
           !.avgTokensOut = Rolling(@, existingStats.totalCalls, tokensOut, totalCalls),
           !.avgCost = Div(totalCost, totalCalls),
           !.totalCalls = totalCalls,
           !.totalCost = totalCost]
      Update(k) ==
        [stats EXCEPT ![k] = Patch(stats[k], stats[k].totalCalls + 1,
                                   stats[k].totalCost + cost)]
  IN  IF byModel # {}
      THEN Update(FirstIn(byModel))
      ELSE Append(stats,
             [model |-> model,
              avgTokensIn |-> Div(tokensIn, 1),
              avgTokensOut |-> Div(tokensOut, 1),
              avgCost |-> Div(cost, 1),
              totalCalls |-> 1,
              totalCost |-> cost])

\* llmUsage.ts recordUsage: insert the usage row, then update the statistics
\* of its model
RecordUsage ==
  /\ Len(llmUsage) < MaxCalls
  /\ \E model \in {"llama-3.1-8b-instant", "llama-3.1-70b-versatile"},
        tokensIn \in {1, 2}, tokensOut \in {1, 3}, cost \in {1, 2} :
       /\ llmUsage' = Append(llmUsage,
                        [model |-> model, tokensIn |-> tokensIn,
                         tokensOut |-> tokensOut, cost |-> cost])
       /\ llmStats' = updateRollingStats(llmStats, model, tokensIn, tokensOut, cost)
  /\ UNCHANGED <<parseVars, textVars, normVars, itineraries>>

\* itineraries.ts generateHumanId: existing are the humanIds stored, codes the
\* five values `HGT${Math.floor(10000 + Math.random() * 90000)}` of the loop,
\* fallback the value `HGT${Date.now().toString().slice(-5)}`
generateHumanId(existing, codes, fallback) ==
  LET free == {i \in 1..5 :
                 {k \in 1..Len(existing) : existing[k] = codes[i]} = {}}
  IN  IF free # {} THEN codes[FirstIn(free)] ELSE fallback

\* itineraries.ts create: the row inserted, of which the humanId is kept
Create ==
  /\ Len(itineraries) < MaxItineraries
  /\ \E codes \in [1..5 -> {"HGT10000", "HGT54321", "HGT99999"}],
        fallback \in {"HGT00042", "HGT10000", "HGT54321"} :
       itineraries' = Append(itineraries,
                             generateHumanId(itineraries, codes, fallback))
  /\ UNCHANGED <<parseVars, textVars, normVars, llmUsage, llmStats>>

DbInit ==
  /\ ParseIdle
  /\ TextIdle
  /\ NormIdle
  /\ DbIdle

UsageSpec == DbInit /\ [][RecordUsage]_vars

CreateSpec == DbInit /\ [][Create]_vars

-----------------------------------------------------------------------------
(* Claims about the normalizer and the detector, second part                *)

\* C21: the normalized text keeps the line breaks of the raw text: an
\* itinerary printed on several lines (none of them ending in a hyphen) is
\* still on several lines when the line-by-line detector receives it.
C21_LineBreaksKept ==
  (Preprocessed /\ Includes(rawText, <<"\n">>)) =>
     Includes(cleanedText, <<"\n">>)

\* C22: a waypoint whose time is followed in the normalized text by the
\* NEXT_DAY marker that the normalizer wrote there has isNextDay = TRUE.
C22_MarkerRecognised ==
  Extracted =>
    \A k \in 1..Len(waypoints) :
      Includes(cleanedText, waypoints[k].time \o Txt.NEXT_DAY) =>
        waypoints[k].isNextDay

\* C23: the waypoint list the detector returns has no two waypoints with
\* the same time and the same location.
C23_NoDuplicateWaypoints ==
  Extracted =>
    \A j, k \in 1..Len(waypoints) :
      (waypoints[j].time = waypoints[k].time
       /\ waypoints[j].location = waypoints[k].location) => j = k

\* C23 witness: a text that prints the same event twice, on lines of their
\* own, yields one waypoint
C23_RepeatedEventOnce ==
  /\ Extracted
  /\ Len(waypoints) = 1
  /\ \E b \in Blocks : cleanedText = Join(<<b, b>>, <<"\n">>)

-----------------------------------------------------------------------------
(* Claims about date inference, second part                                 *)

\* the clock hour of a Date
HourOf(t) == (t \div 60) % 24

\* the Date of the clock time timeLocal on the calendar day of date
OnDayOf(date, timeLocal) == When([date |-> date, timeLocal |-> timeLocal])

C26_ArrivalAfterOwnDeparture ==
  Normalized =>
    \A k \in 1..Len(parsedTicket.segments) :
      LET dep == When(inferredSegments[k].dep)
          arr == When(inferredSegments[k].arr)
      IN  (/\ ~Truthy(parsedTicket.segments[k].arr.date)
           /\ Truthy(inferredSegments[k].arr.date)
           /\ dep # <<>> /\ arr # <<>>) =>
            arr[1] > dep[1]

\* C27: the base date read from the normalized text is the first date
\* printed in the raw text: normalization does not rewrite the year of a
\* printed date.
C27_PrintedDateKept ==
  (Preprocessed /\ extractBaseDate(rawText) # NoDate) =>
     extractBaseDate(cleanedText) = extractBaseDate(rawText)

-----------------------------------------------------------------------------
(* Claims about the parse, second part                                      *)

\* C28: a deterministic result that the gate accepts, by its computed
\* confidence or by the confidence of the simple extractor, has a booking
\* reference, at least one passenger and at least one segment.
C28_AcceptedHasCriticalFields ==
  (pc = "genericReturn" /\ source = "deterministic") =>
     /\ Truthy(detTicket.airlineLocator)
     /\ Len(detTicket.passengers) > 0
     /\ Len(detTicket.segments) > 0

-----------------------------------------------------------------------------
(* Claims about the Convex functions                                        *)

\* the usage rows recorded for a model
UsageOf(model) == {k \in 1..Len(llmUsage) : llmUsage[k].model = model}

\* the sum of a field over a set of usage rows
RECURSIVE SumOver(_, _)
SumOver(rows, field) ==
  IF rows = {} THEN 0
  ELSE LET k == CHOOSE r \in rows : TRUE
       IN  llmUsage[k][field] + SumOver(rows \ {k}, field)

\* C29: after any sequence of recordUsage calls every model that was
\* recorded has exactly one statistics row, whose totalCalls is the number
\* of its calls, whose totalCost is the sum of their costs, whose avgCost is
\* totalCost / totalCalls, and whose avgTokensIn and avgTokensOut are the
\* arithmetic means of the token counts recorded; no other row exists.
C29_StatsMatchUsage ==
  /\ \A k \in 1..Len(llmStats) : UsageOf(llmStats[k].model) # {}
  /\ \A u \in 1..Len(llmUsage) :
       LET model == llmUsage[u].model
           rows == {k \in 1..Len(llmStats) : llmStats[k].model = model}
           row == llmStats[CHOOSE k \in rows : TRUE]
           calls == Cardinality(UsageOf(model))
       IN  /\ Cardinality(rows) = 1
           /\ row.totalCalls = calls
           /\ row.totalCost = SumOver(UsageOf(model), "cost")
           /\ row.avgCost.num * row.totalCalls = row.totalCost * row.avgCost.den
           /\ row.avgTokensIn.num * calls
                = SumOver(UsageOf(model), "tokensIn") * row.avgTokensIn.den
           /\ row.avgTokensOut.num * calls
                = SumOver(UsageOf(model), "tokensOut") * row.avgTokensOut.den

\* C29 witness: three calls, two models, and a model whose mean of tokensIn
\* is not a whole number
C29_TwoModelsThreeCalls ==
  /\ Len(llmUsage) = 3
  /\ Len(llmStats) = 2
  /\ \E k \in 1..Len(llmStats) :
       llmStats[k].totalCalls = 2 /\ llmStats[k].avgTokensIn.den = 2

\* C30: no two stored itineraries have the same humanId.
C30_HumanIdsDistinct ==
  \A j, k \in 1..Len(itineraries) :
    itineraries[j] = itineraries[k] => j = k

====
